---- MODULE Spec2Model ----
(***************************************************************************)
(* A model of gummygrid: the seeded Randomizer, the Grid fill algorithm   *)
(* and the colour resolution of the renderer, as wired together by the    *)
(* GummyGrid generator.                                                    *)
(*                                                                         *)
(* Numbers that the program treats as decimals (weights, the fill bias)   *)
(* are held in hundredths: the weight 1 is 100, the bias 0.5 is 50.  The  *)
(* model covers numbers with at most two decimal places.                  *)
(***************************************************************************)
EXTENDS Integers, Sequences, FiniteSets, TLC

VARIABLES cfg, gen, rnd, call

vars == <<cfg, gen, rnd, call>>

None == "none"

\* an omitted weights argument, and an omitted bias argument (real weights
\* and biases are never negative)
NoWeights == <<-1>>

NoBias == 0 - 1

\* the value of a colour category that was given no colour
Undefined == 0 - 1

(***************************************************************************)
(* Signed 32-bit arithmetic.  A hash h is split as hi * 2^16 + lo so that *)
(* no intermediate value leaves the 32-bit range.                          *)
(***************************************************************************)
Half == 256 * 256

MinInt32 == (-2147483647) - 1

Abs(x) == IF x < 0 THEN 0 - x ELSE x

\* the signed 16-bit value congruent to x modulo 2^16
Wrap16(x) == ((x + 32768) % Half) - 32768

\* this.hash = (this.hash << 5) - this.hash + number; this.hash |= 0
bumpHash(h, n) ==
    LET hi == h \div Half
        lo == h % Half
        t  == 31 * lo + n
    IN  Wrap16(31 * hi + (t \div Half)) * Half + (t % Half)

\* the variant of AbsMod where the absolute value of -2^31 stays a 32-bit
\* value, 2^31 - 1
AbsModSaturated(h, m) ==
    IF h = MinInt32 THEN 2147483647 % m ELSE Abs(h) % m

\* Math.abs(hash) % m, where Math.abs(-2^31) = 2^31 is not a 32-bit value
AbsMod(h, m) ==
    IF h = MinInt32 THEN ((1073741824 % m) * 2) % m ELSE Abs(h) % m

getRandomNumber(h, min, max) == AbsMod(h, max - min + 1) + min

updateHash(h) == bumpHash(h, getRandomNumber(h, 1, 999))

\* number(min, max): the value read, then the hash advanced
number(h, min, max) ==
    [v |-> getRandomNumber(h, min, max), h |-> updateHash(h), err |-> None]

RECURSIVE foldSeed(_, _, _)
foldSeed(h, seed, i) ==
    IF i > Len(seed) THEN h ELSE foldSeed(bumpHash(h, seed[i]), seed, i + 1)

\* the variant of setHash that forgets to reset the hash
setHashNoReset(h, seed, salt) == bumpHash(foldSeed(h, seed, 1), salt)

\* setHash(): hash = 0, fold every char code, fold the salt
setHash(h, seed, salt) == bumpHash(foldSeed(0, seed, 1), salt)

\* new Randomizer(salt): hash = 0; bumpHash(salt)
RandomizerInit(salt) == bumpHash(0, salt)

(***************************************************************************)
(* Helpers from the randomizer's utils.                                    *)
(***************************************************************************)
RECURSIVE Pow10(_)
Pow10(k) == IF k = 0 THEN 1 ELSE 10 * Pow10(k - 1)

\* Math.min(2, maxDecimalPlaces): the cap on the scaling of decimals
MaxPlaces == 2

\* hundredths in one unit
Scale == Pow10(MaxPlaces)

SetMax(S) == CHOOSE x \in S : \A y \in S : y <= x

\* num.toString().split('.')[1]?.length ?? 0, for a number of hundredths
DecimalPlaces(c) == IF c % 100 = 0 THEN 0 ELSE IF c % 10 = 0 THEN 1 ELSE 2

\* integers out of decimals: every entry times 10^min(2, max decimal places)
normalizeDecimalsToIntegers(arr) ==
    LET k == SetMax({0} \cup {DecimalPlaces(arr[i]) : i \in DOMAIN arr})
    IN  [i \in DOMAIN arr |-> arr[i] \div Pow10(MaxPlaces - k)]

\* recursiveDivideByTen never returns on a vector without a non-zero entry
Diverges(arr) == \A i \in DOMAIN arr : arr[i] = 0

RECURSIVE recursiveDivideByTen(_)
recursiveDivideByTen(arr) ==
    IF \E i \in DOMAIN arr : arr[i] % 10 # 0
    THEN arr
    ELSE recursiveDivideByTen([i \in DOMAIN arr |-> arr[i] \div 10])

normalizeWeights(arr) == recursiveDivideByTen(normalizeDecimalsToIntegers(arr))

RECURSIVE NextPowerOfTen(_, _)
NextPowerOfTen(p, num) == IF p >= num THEN p ELSE NextPowerOfTen(10 * p, num)

\* the variant of roundUpToNextPowerOfTen that yields the power of ten above
\* num: 10 for 1, 100 for 10
roundUpAbovePowerOfTen(num) == NextPowerOfTen(Scale, num + 1)

\* Math.pow(10, Math.ceil(Math.log10(num))), for num >= 1, in hundredths
roundUpToNextPowerOfTen(num) == NextPowerOfTen(Scale, num)

getInverseBias(bias) ==
    IF bias < Scale THEN Scale - bias ELSE roundUpToNextPowerOfTen(bias) - bias

\* the loop of binaryFindIndex over arr[lo..hi], 0-based bounds
RECURSIVE binaryLoop(_, _, _, _)
binaryLoop(arr, sval, lowerBound, upperBound) ==
    IF lowerBound > upperBound THEN lowerBound
    ELSE LET midx == ((upperBound - lowerBound) \div 2) + lowerBound
             mval == arr[midx + 1]
         IN  IF sval = mval THEN midx
             ELSE IF sval > mval
                  THEN binaryLoop(arr, sval, midx + 1, upperBound)
                  ELSE binaryLoop(arr, sval, lowerBound, midx - 1)

\* binaryFindIndex(arr, sval): the index of sval, or its insertion point
binaryFindIndex(arr, sval) == binaryLoop(arr, sval, 0, Len(arr) - 1)

(***************************************************************************)
(* Randomizer: choices.  Every operation takes the hash and yields a      *)
(* record with the hash after the call, and either a value or an error.   *)
(***************************************************************************)
Fail(h, e) == [v |-> None, h |-> h, err |-> e]

Ok(h, v) == [v |-> v, h |-> h, err |-> None]

\* positions of the non-zero weights, in order (1-based positions)
RECURSIVE NonZero(_, _)
NonZero(w, i) ==
    IF i > Len(w) THEN <<>>
    ELSE IF w[i] = 0 THEN NonZero(w, i + 1) ELSE <<i>> \o NonZero(w, i + 1)

RECURSIVE Cumulative(_, _, _, _)
Cumulative(w, keep, k, total) ==
    IF k > Len(keep) THEN <<>>
    ELSE <<total + w[keep[k]]>> \o Cumulative(w, keep, k + 1, total + w[keep[k]])

\* the variant of weightedDraw that draws in [0, totalWeight - 1]
weightedDrawFromZero(h, arr, weights) ==
    IF Diverges(normalizeDecimalsToIntegers(weights))
    THEN [idx |-> None, arr |-> <<>>, h |-> h, err |-> "RangeError"]
    ELSE LET w    == normalizeWeights(weights)
             keep == NonZero(w, 1)
             cumulativeWeights == Cumulative(w, keep, 1, 0)
             totalWeight == cumulativeWeights[Len(cumulativeWeights)]
             draw == number(h, 0, totalWeight - 1)
         IN  [idx |-> binaryFindIndex(cumulativeWeights, draw.v),
              arr |-> [k \in DOMAIN keep |-> arr[keep[k]]],
              h   |-> draw.h,
              err |-> None]

\* the selection among two or more items, the lengths being equal
weightedDraw(h, arr, weights) ==
    IF Diverges(normalizeDecimalsToIntegers(weights))
    THEN [idx |-> None, arr |-> <<>>, h |-> h, err |-> "RangeError"]
    ELSE LET w    == normalizeWeights(weights)
             keep == NonZero(w, 1)
             cumulativeWeights == Cumulative(w, keep, 1, 0)
             totalWeight == cumulativeWeights[Len(cumulativeWeights)]
             draw == number(h, 1, totalWeight)
         IN  [idx |-> binaryFindIndex(cumulativeWeights, draw.v),
              arr |-> [k \in DOMAIN keep |-> arr[keep[k]]],
              h   |-> draw.h,
              err |-> None]

\* the variant of choiceWeightedIndex that returns the only item before it
\* compares the lengths
choiceWeightedIndexSingleFirst(h, arr, weights) ==
    IF Len(arr) = 1
    THEN [idx |-> 0, arr |-> arr, h |-> h, err |-> None]
    ELSE IF Len(arr) # Len(weights)
    THEN [idx |-> None, arr |-> <<>>, h |-> h, err |-> "WeightLengthMismatch"]
    ELSE weightedDraw(h, arr, weights)

\* choiceWeightedIndex: idx is an index into the filtered array arr
choiceWeightedIndex(h, arr, weights) ==
    IF Len(arr) # Len(weights)
    THEN [idx |-> None, arr |-> <<>>, h |-> h, err |-> "WeightLengthMismatch"]
    ELSE IF Len(arr) = 1
    THEN [idx |-> 0, arr |-> arr, h |-> h, err |-> None]
    ELSE weightedDraw(h, arr, weights)

\* return filteredArr[idx], unless choiceWeightedIndex threw
filteredItem(r) ==
    IF r.err # None THEN Fail(r.h, r.err) ELSE Ok(r.h, r.arr[r.idx + 1])

choiceWeighted(h, arr, weights) ==
    filteredItem(choiceWeightedIndex(h, arr, weights))

\* choice(arr, weights?)
choice(h, arr, weights) ==
    IF Len(arr) = 0 THEN Fail(h, "EmptyChoice")
    ELSE IF weights # NoWeights THEN choiceWeighted(h, arr, weights)
    ELSE IF Len(arr) = 1 THEN Ok(h, arr[1])
    ELSE LET draw == number(h, 0, Len(arr) - 1) IN Ok(draw.h, arr[draw.v + 1])

\* return idx, unless choiceWeightedIndex threw
filteredIndex(r) == IF r.err # None THEN Fail(r.h, r.err) ELSE Ok(r.h, r.idx)

\* the variant of getChoiceIndex that draws for an array of one item too
getChoiceIndexDrawsAlways(h, arr, weights) ==
    IF Len(arr) = 0 THEN Fail(h, "EmptyChoice")
    ELSE IF weights # NoWeights
    THEN filteredIndex(choiceWeightedIndex(h, arr, weights))
    ELSE number(h, 0, Len(arr) - 1)

getChoiceIndex(h, arr, weights) ==
    IF Len(arr) = 0 THEN Fail(h, "EmptyChoice")
    ELSE IF weights # NoWeights
    THEN filteredIndex(choiceWeightedIndex(h, arr, weights))
    ELSE IF Len(arr) = 1 THEN Ok(h, 0)
    ELSE number(h, 0, Len(arr) - 1)

\* boolean(bias?)
\* the outcome of boolean: the choice among [true, false], true being 1
chosenTrue(r) == IF r.err # None THEN r ELSE Ok(r.h, r.v = 1)

boolean(h, bias) ==
    IF bias # NoBias
    THEN chosenTrue(choiceWeighted(h, <<1, 0>>, <<bias, getInverseBias(bias)>>))
    ELSE chosenTrue(number(h, 0, 1))

(***************************************************************************)
(* Grid and Cell.  A fill pattern is a function from the coordinates      *)
(* <<row, col>> to BOOLEAN; size is [rows, columns].  The build steps     *)
(* thread a record [h, fill]: the hash of the randomizer behind the       *)
(* fillDecider / numberPicker callbacks, and the pattern.                  *)
(***************************************************************************)
Coords(size) == (0 .. size.rows - 1) \X (0 .. size.columns - 1)

\* getInitialGrid(): every cell empty
getInitialGrid(size) == [p \in Coords(size) |-> FALSE]

isHorizontallyOddSized(size) == size.columns % 2 # 0

isVerticallyOddSized(size) == size.rows % 2 # 0

isInMiddleColumn(size, p) == p[2] = size.columns \div 2

isInMiddleRow(size, p) == p[1] = size.rows \div 2

hasHorizontalParallel(size, p) ==
    ~isHorizontallyOddSized(size) \/ ~isInMiddleColumn(size, p)

hasVerticalParallel(size, p) ==
    ~isVerticallyOddSized(size) \/ ~isInMiddleRow(size, p)

getHorizontalParallelCoords(size, p) == <<p[1], size.columns - p[2] - 1>>

getVerticalParallelCoords(size, p) == <<size.rows - p[1] - 1, p[2]>>

\* cell.fill()
fillCell(fill, p) == [fill EXCEPT ![p] = TRUE]

fillHorizontalParallel(size, fill, p) ==
    fillCell(fill, getHorizontalParallelCoords(size, p))

\* the variant of fillVerticalParallel that leaves out the horizontal
\* parallel of the vertical parallel
fillVerticalParallelOnly(size, fill, p) ==
    fillCell(fill, getVerticalParallelCoords(size, p))

\* fills the vertical parallel, and that cell's horizontal parallel
fillVerticalParallel(size, fill, p) ==
    LET parallel == getVerticalParallelCoords(size, p)
        f1 == fillCell(fill, parallel)
    IN  IF hasHorizontalParallel(size, parallel)
        THEN fillHorizontalParallel(size, f1, parallel)
        ELSE f1

\* the variant of fillCellAndParallel that never mirrors horizontally
fillCellAndParallelNoMirror(g, fill, p) ==
    LET f1 == fillCell(fill, p)
    IN  IF g.verticalSymmetry /\ hasVerticalParallel(g.size, p)
        THEN fillCell(f1, getVerticalParallelCoords(g.size, p))
        ELSE f1

\* fillCellAndParallel(cell); g is the grid configuration
fillCellAndParallel(g, fill, p) ==
    LET f1 == fillCell(fill, p)
        f2 == IF hasHorizontalParallel(g.size, p)
              THEN fillHorizontalParallel(g.size, f1, p)
              ELSE f1
    IN  IF g.verticalSymmetry /\ hasVerticalParallel(g.size, p)
        THEN fillVerticalParallel(g.size, f2, p)
        ELSE f2

\* wannaFill(): the fillDecider callback, rand.boolean(cellFillProbability)
wannaFill(g, h) == boolean(h, g.bias)

\* pickNumber(min, max): the numberPicker callback, rand.number(min, max)
pickNumber(h, min, max) == number(h, min, max)

CeilHalf(n) == (n + 1) \div 2

\* the element of a singleton set.  The build steps run one after the
\* other: Only({F(s) : s \in {e}}) is F applied to the value of e, the
\* step e being completed before the step F starts.
Only(S) == CHOOSE x \in S : TRUE

\* the variant of iterateFillableCells that rounds the halves down
iterateFillableCellsFloorHalf(g) ==
    LET rowLimit == IF g.verticalSymmetry THEN g.size.rows \div 2
                    ELSE g.size.rows
        colLimit == g.size.columns \div 2
    IN  [k \in 1 .. rowLimit * colLimit |->
            <<(k - 1) \div colLimit, (k - 1) % colLimit>>]

\* iterateFillableCells(): row-major, top rows (all rows without vertical
\* symmetry) by left columns, both halves rounded up
iterateFillableCells(g) ==
    LET rowLimit == IF g.verticalSymmetry THEN CeilHalf(g.size.rows)
                    ELSE g.size.rows
        colLimit == CeilHalf(g.size.columns)
    IN  [k \in 1 .. rowLimit * colLimit |->
            <<(k - 1) \div colLimit, (k - 1) % colLimit>>]

\* if (this.wannaFill()) this.fillCellAndParallel(cell); d is the decision
fillIfWanted(g, st, d, p) ==
    [h |-> d.h,
     fill |-> IF d.v THEN fillCellAndParallel(g, st.fill, p) ELSE st.fill]

RECURSIVE generateLoop(_, _, _, _)
generateLoop(g, st, cells, k) ==
    IF k > Len(cells) THEN st
    ELSE Only({generateLoop(g, s, cells, k + 1) :
                 s \in {fillIfWanted(g, st, wannaFill(g, st.h), cells[k])}})

\* the variant of generateCells that starts at the second fillable cell
generateCellsFromSecond(g, st) ==
    generateLoop(g, st, iterateFillableCells(g), 2)

\* generateCells(): one wannaFill() per fillable cell, in iteration order
generateCells(g, st) == generateLoop(g, st, iterateFillableCells(g), 1)

hasFilledCellsTop(g, fill) ==
    \E c \in 0 .. g.size.columns - 1 : fill[<<0, c>>]

hasFilledCellsBottom(g, fill) ==
    \E c \in 0 .. g.size.columns - 1 : fill[<<g.size.rows - 1, c>>]

hasFilledCellsLeft(g, fill) ==
    \E r \in 0 .. g.size.rows - 1 : fill[<<r, 0>>]

hasFilledCellsRight(g, fill) ==
    \E r \in 0 .. g.size.rows - 1 : fill[<<r, g.size.columns - 1>>]

\* the scan after a forced pick: over the positions 0 .. n-1 of the line
\* other than the picked one, fill the first for which wannaFill() draws
\* true and stop.  line[i + 1] is the coordinate of position i.
RECURSIVE scanLine(_, _, _, _, _)
\* if (this.wannaFill()) { fill; break; } at position i; d is the decision
fillAndBreak(g, st, d, line, picked, i) ==
    IF d.v
    THEN [h |-> d.h, fill |-> fillCellAndParallel(g, st.fill, line[i + 1])]
    ELSE scanLine(g, [h |-> d.h, fill |-> st.fill], line, picked, i + 1)

scanLine(g, st, line, picked, i) ==
    IF i >= Len(line) THEN st
    ELSE IF i = picked THEN scanLine(g, st, line, picked, i + 1)
    ELSE fillAndBreak(g, st, wannaFill(g, st.h), line, picked, i)

\* one iteration of `for (const row of rows)` in ensureTopBottomCells
ensureRow(g, st, row) ==
    LET pk == pickNumber(st.h, 0, g.size.columns \div 2)
    IN  scanLine(g,
            [h |-> pk.h, fill |-> fillCellAndParallel(g, st.fill, <<row, pk.v>>)],
            [c \in 1 .. g.size.columns |-> <<row, c - 1>>], pk.v, 0)

\* one iteration of `for (const col of cols)` in ensureLeftRightCells
ensureColumn(g, st, col) ==
    LET pk == pickNumber(st.h, 0, g.size.rows \div 2)
    IN  scanLine(g,
            [h |-> pk.h, fill |-> fillCellAndParallel(g, st.fill, <<pk.v, col>>)],
            [r \in 1 .. g.size.rows |-> <<r - 1, col>>], pk.v, 0)

RECURSIVE ensureRows(_, _, _, _)
ensureRows(g, st, rows, k) ==
    IF k > Len(rows) THEN st
    ELSE Only({ensureRows(g, s, rows, k + 1) : s \in {ensureRow(g, st, rows[k])}})

RECURSIVE ensureColumns(_, _, _, _)
ensureColumns(g, st, cols, k) ==
    IF k > Len(cols) THEN st
    ELSE Only({ensureColumns(g, s, cols, k + 1) :
                 s \in {ensureColumn(g, st, cols[k])}})

\* the variant of ensureTopBottomCells that forgets the bottom row
ensureTopBottomCellsTopOnly(g, st) ==
    ensureRows(g, st, IF hasFilledCellsTop(g, st.fill) THEN <<>> ELSE <<0>>, 1)

\* rows: 0 if the top row has no filled cell, rows - 1 if the bottom row has
\* none, both decided before the loop over rows starts
rowsToForce(g, fill) ==
    (IF hasFilledCellsTop(g, fill) THEN <<>> ELSE <<0>>)
    \o (IF hasFilledCellsBottom(g, fill) THEN <<>> ELSE <<g.size.rows - 1>>)

\* cols: likewise for the left and the right column
columnsToForce(g, fill) ==
    (IF hasFilledCellsLeft(g, fill) THEN <<>> ELSE <<0>>)
    \o (IF hasFilledCellsRight(g, fill) THEN <<>> ELSE <<g.size.columns - 1>>)

\* ensureTopBottomCells(): the rows to force are decided before the loop
ensureTopBottomCells(g, st) == ensureRows(g, st, rowsToForce(g, st.fill), 1)

\* ensureLeftRightCells(): the columns to force are decided before the loop
ensureLeftRightCells(g, st) ==
    ensureColumns(g, st, columnsToForce(g, st.fill), 1)

\* the forced picks of the loop of ensureTopBottomCells, in order: the row,
\* and whether it had a filled cell when its iteration started
RECURSIVE forcedRows(_, _, _, _)
forcedRows(g, st, rows, k) ==
    IF k > Len(rows) THEN <<>>
    ELSE <<[line |-> rows[k],
            filled |-> \E c \in 0 .. g.size.columns - 1 :
                           st.fill[<<rows[k], c>>]]>>
         \o Only({forcedRows(g, s, rows, k + 1) :
                    s \in {ensureRow(g, st, rows[k])}})

\* the forced picks of the loop of ensureLeftRightCells
RECURSIVE forcedColumns(_, _, _, _)
forcedColumns(g, st, cols, k) ==
    IF k > Len(cols) THEN <<>>
    ELSE <<[line |-> cols[k],
            filled |-> \E r \in 0 .. g.size.rows - 1 :
                           st.fill[<<r, cols[k]>>]]>>
         \o Only({forcedColumns(g, s, cols, k + 1) :
                    s \in {ensureColumn(g, st, cols[k])}})

\* Grid.build(): the cells filled by earlier builds stay filled
\* if (this.config.ensureFill.topBottom) this.ensureTopBottomCells()
buildTopBottom(g, st) ==
    IF g.ensureFill.topBottom THEN ensureTopBottomCells(g, st) ELSE st

\* if (this.config.ensureFill.leftRight) this.ensureLeftRightCells()
buildLeftRight(g, st) ==
    IF g.ensureFill.leftRight THEN ensureLeftRightCells(g, st) ELSE st

build(g, st) ==
    Only({buildLeftRight(g, s2) :
            s2 \in {buildTopBottom(g, s1) : s1 \in {generateCells(g, st)}}})

(***************************************************************************)
(* Renderer: colour resolution.  A colour array is modelled by its        *)
(* length; a colour by its index in the array of its category.            *)
(***************************************************************************)
\* Object.keys(config.colors): the key order of the default configuration
colorCategories == <<"background", "cellFill", "cellStroke", "dropShadow">>

CategorySet == {colorCategories[k] : k \in DOMAIN colorCategories}

InSeq(x, seq) == \E k \in DOMAIN seq : seq[k] = x

\* the items 0 .. n-1 of an array of length n
Items(n) == [k \in 1 .. n |-> k - 1]

\* connectLockedColorWeights(): the first configured weight vector of a
\* locked category becomes the weight vector of every locked category
connectLockedColorWeights(colorWeights, locked) ==
    LET given == {k \in DOMAIN locked : colorWeights[locked[k]] # NoWeights}
    IN  IF given = {} THEN colorWeights
        ELSE LET first == CHOOSE k \in given : \A m \in given : k <= m
             IN  [c \in CategorySet |->
                    IF InSeq(c, locked) THEN colorWeights[locked[first]]
                    ELSE colorWeights[c]]

\* colorIdxPicker({category, colors}): WeightLengthMismatchError is thrown
\* again as an error naming the category, any other error is passed on
namedMismatch(r, category) ==
    [v |-> r.v, h |-> r.h, err |-> r.err,
     category |-> IF r.err = "WeightLengthMismatch" THEN category ELSE None]

colorIdxPicker(h, category, n, colorWeights) ==
    namedMismatch(getChoiceIndex(h, Items(n), colorWeights[category]), category)

\* the variant of isLockedColor that takes no category for locked
isLockedColorNever(sv, category) == FALSE

isLockedColor(sv, category) == InSeq(category, sv.lockColors)

\* the loop of getAllColors over the categories from position k on; picks
\* lists the categories pickColorIdx was called for so far
RECURSIVE colorLoop(_, _, _, _, _, _)
\* res[category] = colors[colorIdxPicker(...)]; pk is what the picker yielded
pickedColor(sv, res, lockedIdx, picks, k, pk) ==
    IF pk.err # None
    THEN [res |-> res, h |-> pk.h, err |-> pk.err, category |-> pk.category,
          picks |-> picks]
    ELSE colorLoop(sv, pk.h, [res EXCEPT ![colorCategories[k]] = pk.v],
                   lockedIdx, picks, k + 1)

colorLoop(sv, h, res, lockedIdx, picks, k) ==
    IF k > Len(colorCategories)
    THEN [res |-> res, h |-> h, err |-> None, category |-> None,
          picks |-> picks]
    ELSE LET category == colorCategories[k]
             n == sv.colors[category]
         IN  IF isLockedColor(sv, category)
             THEN colorLoop(sv, h,
                      [res EXCEPT ![category] =
                          IF lockedIdx < n THEN lockedIdx ELSE Undefined],
                      lockedIdx, picks, k + 1)
             ELSE IF n > 0
             THEN pickedColor(sv, res, lockedIdx, Append(picks, category), k,
                      colorIdxPicker(h, category, n, sv.colorWeights))
             ELSE colorLoop(sv, h, res, lockedIdx, picks, k + 1)

\* getAllColors(): one pick for the locked group, on its first category,
\* then one pick per unlocked category that has colours
noColors == [c \in CategorySet |-> Undefined]

\* lockedColorsIdx = colorIdxPicker(...); pk is what the picker yielded
pickedLocked(sv, pk) ==
    IF pk.err # None
    THEN [res |-> noColors, h |-> pk.h, err |-> pk.err, category |-> pk.category,
          picks |-> <<sv.lockColors[1]>>]
    ELSE colorLoop(sv, pk.h, noColors, pk.v, <<sv.lockColors[1]>>, 1)

getAllColors(sv, h) ==
    IF Len(sv.lockColors) > 0
    THEN pickedLocked(sv,
             colorIdxPicker(h, sv.lockColors[1], sv.colors[sv.lockColors[1]],
                            sv.colorWeights))
    ELSE colorLoop(sv, h, noColors, Undefined, <<>>, 1)

\* validateColorArrays() and validateLockedColorArrays(): what the
\* construction of the renderer demands of the colour arrays
validColors(colors, lockColors) ==
    /\ colors["background"] # 0
    /\ colors["cellFill"] # 0
    /\ \A k \in DOMAIN lockColors : colors[lockColors[k]] = colors[lockColors[1]]

(***************************************************************************)
(* The generator.  cfg is the configuration object: the constructor      *)
(* merges the caller's configuration into the one default object and      *)
(* keeps that object as this.config, so every generator holds the same    *)
(* object.  cfg.randomizer.bias.colorWeights is what                      *)
(* connectLockedColorWeights left there, cfg.given keeps the weight       *)
(* vectors as the caller configured them.  A generator keeps as its own   *)
(* what the constructor copied out of the object: the salt (Randomizer),  *)
(* the size (Grid), verticalSymmetry and lockColors (the spread copies).  *)
(***************************************************************************)
MaxRows == 3

MaxColumns == 3

MaxBuilds == 2

MaxDraws == 1

\* seeds, as sequences of char codes: "a", "bc"
Seeds == {<<97>>, <<98, 99>>}

Salts == {0, 7}

\* fill probabilities 0, 0.3, 0.5 and 1
Biases == {0, 30, 50, 100}

NoColorWeights == [c \in CategorySet |-> NoWeights]

MakeConfig(salt, bias, given, size, sym, tb, lr, colors, lock) ==
    [randomizer |-> [salt |-> salt,
                     bias |-> [cellFillProbability |-> bias,
                               colorWeights |->
                                   connectLockedColorWeights(given, lock)]],
     grid |-> [size |-> size,
               ensureFill |-> [topBottom |-> tb, leftRight |-> lr],
               verticalSymmetry |-> sym],
     svg  |-> [colors |-> colors, lockColors |-> lock],
     given |-> given]

\* initializeGrid(): the grid of generator me as build() sees it: the size
\* and verticalSymmetry copied at construction, the ensureFill object and
\* the fillDecider's bias read from the configuration object c
initializeGrid(c, me) ==
    [size |-> me.size,
     ensureFill |-> c.grid.ensureFill,
     verticalSymmetry |-> me.verticalSymmetry,
     bias |-> c.randomizer.bias.cellFillProbability]

\* initializeSVG(): the renderer of generator me as buildFrom() sees it:
\* lockColors copied at construction, the colors object and the weights
\* behind colorIdxPicker read from the configuration object c
initializeSVG(c, me) ==
    [colors |-> c.svg.colors,
     lockColors |-> me.lockColors,
     colorWeights |-> c.randomizer.bias.colorWeights]

\* new GummyGrid(config): a randomizer, an empty grid, an empty document
NewGenerator(c) ==
    [hash   |-> RandomizerInit(c.randomizer.salt),
     seed   |-> <<>>,
     fill   |-> getInitialGrid(c.grid.size),
     doc    |-> <<>>,
     builds |-> 0,
     draws  |-> 0,
     salt   |-> c.randomizer.salt,
     size   |-> c.grid.size,
     verticalSymmetry |-> c.grid.verticalSymmetry,
     lockColors |-> c.svg.lockColors]

\* the document: a function of the fill pattern and the resolved colours
Document(fill, colors) == <<fill, colors>>

\* the variant of storedDocument that stores what was resolved so far
storedDocumentSoFar(doc, fill, c) == Document(fill, c.res)

\* svg.buildFrom(): this.string is assigned last, after getAllColors and
\* the drawing; c is what getAllColors yielded
storedDocument(doc, fill, c) ==
    IF c.err = None THEN Document(fill, c.res) ELSE doc

\* buildFrom(value): rand.setSeed, grid.build, svg.buildFrom
BuildFrom(i, value) ==
    /\ gen[i].builds < MaxBuilds
    /\ \E b \in {build(initializeGrid(cfg, gen[i]),
                      [h |-> setHash(gen[i].hash, value, gen[i].salt),
                       fill |-> gen[i].fill])} :
       \E c \in {getAllColors(initializeSVG(cfg, gen[i]), b.h)} :
           /\ gen' = [gen EXCEPT ![i].hash = c.h,
                                 ![i].seed = value,
                                 ![i].fill = b.fill,
                                 ![i].doc = storedDocument(@, b.fill, c),
                                 ![i].builds = @ + 1]
           /\ call' = [op |-> "buildFrom", inst |-> i, err |-> c.err,
                       category |-> c.category, picks |-> c.picks]
    /\ UNCHANGED <<cfg, rnd>>

\* a draw on the generator's own randomizer: gen.rand.number(0, 1)
Draw(i) ==
    /\ gen[i].draws < MaxDraws
    /\ gen' = [gen EXCEPT ![i].hash = number(@, 0, 1).h,
                          ![i].draws = @ + 1]
    /\ call' = [op |-> "draw", inst |-> i, err |-> None, category |-> None,
                picks |-> <<>>]
    /\ UNCHANGED <<cfg, rnd>>

Next ==
    \/ \E i \in DOMAIN gen, value \in Seeds : BuildFrom(i, value)
    \/ \E i \in DOMAIN gen : Draw(i)

NoCall == [op |-> None, inst |-> 0, err |-> None, category |-> None,
           picks |-> <<>>]

Sizes == {[rows |-> r, columns |-> c] : r \in 1 .. MaxRows, c \in 1 .. MaxColumns}

\* colour arrays of lengths 1, 2, 0, 0 and no weights, no locks
PlainColors ==
    [c \in CategorySet |->
        IF c = "background" THEN 1 ELSE IF c = "cellFill" THEN 2 ELSE 0]

\* every grid configuration within the bounds, with plain colours
GridConfigs ==
    {MakeConfig(salt, bias, NoColorWeights, size, sym, tb, lr, PlainColors, <<>>) :
        salt \in Salts, bias \in Biases, size \in Sizes,
        sym \in BOOLEAN, tb \in BOOLEAN, lr \in BOOLEAN}

\* the weight vectors a category may be configured with
WeightChoices == {NoWeights, <<100>>, <<0, 100>>, <<100, 200>>, <<100, 100, 100>>}

Locks == {<<>>, <<"cellFill", "cellStroke">>, <<"cellStroke", "cellFill">>,
          <<"cellStroke", "dropShadow">>}

SmallSize == [rows |-> 2, columns |-> 2]

\* colour arrays: one background, nf cell fills, ns cell strokes
ColorArrays(nf, ns) ==
    [c \in CategorySet |->
        IF c = "background" THEN 1
        ELSE IF c = "cellFill" THEN nf
        ELSE IF c = "cellStroke" THEN ns ELSE 0]

\* every configuration of colours, weights and locks within the bounds that
\* the constructor accepts, on a small grid
ColorConfigs ==
    {c \in {MakeConfig(0, 50,
                [c \in CategorySet |->
                    IF c = "cellFill" THEN wf
                    ELSE IF c = "cellStroke" THEN ws ELSE NoWeights],
                SmallSize, FALSE, FALSE, FALSE, ColorArrays(nf, ns), lock) :
                wf \in WeightChoices, ws \in WeightChoices,
                nf \in 1 .. 3, ns \in {0, 2}, lock \in Locks} :
        validColors(c.svg.colors, c.svg.lockColors)}

\* one generator, any grid configuration or any colour configuration
InitOne ==
    /\ cfg \in GridConfigs \cup ColorConfigs
    /\ gen = [i \in {1} |-> NewGenerator(cfg)]
    /\ rnd = <<>>
    /\ call = NoCall

SpecOne == InitOne /\ [][Next]_vars

\* the configurations of the two-generator specification
PairConfigs ==
    {MakeConfig(0, bias,
                [c \in CategorySet |-> IF c = "cellFill" THEN wf ELSE NoWeights],
                size, sym, e, e, PlainColors, <<>>) :
        bias \in {30, 50}, wf \in {NoWeights, <<100, 200>>},
        size \in {SmallSize, [rows |-> 3, columns |-> 2]},
        sym \in BOOLEAN, e \in BOOLEAN}

\* two generators constructed from the same configuration
Init ==
    /\ cfg \in PairConfigs
    /\ gen = [i \in {1, 2} |-> NewGenerator(cfg)]
    /\ rnd = <<>>
    /\ call = NoCall

Spec == Init /\ [][Next]_vars

(***************************************************************************)
(* Randomizers on their own.  rnd[j] is a Randomizer object: its fields   *)
(* seed, hash and salt, and a record of what was done to it: calls counts *)
(* the draws made on it, ops and rets are the draws made since the seed   *)
(* was last set (or since construction) and what they returned, seeded    *)
(* and reseeded tell whether setSeed ran at least once and at least twice. *)
(* call is the last call: its arguments, the hash before it, its outcome. *)
(***************************************************************************)
MaxCalls == 2

MaxItems == 3

NewRandomizer(salt) ==
    [seed |-> <<>>, hash |-> RandomizerInit(salt), salt |-> salt,
     calls |-> 0, ops |-> <<>>, rets |-> <<>>,
     seeded |-> FALSE, reseeded |-> FALSE]

\* setSeed(str)
SetSeed(j, str) ==
    /\ rnd' = [rnd EXCEPT ![j] =
                 [@ EXCEPT !.seed = str,
                           !.hash = setHash(@, str, rnd[j].salt),
                           !.ops = <<>>,
                           !.rets = <<>>,
                           !.seeded = TRUE,
                           !.reseeded = rnd[j].seeded]]
    /\ call' = [op |-> "setSeed", inst |-> j, n |-> 0, weights |-> NoWeights,
                pre |-> rnd[j].hash, v |-> None, err |-> None]
    /\ UNCHANGED <<cfg, gen>>

\* the effect of a draw on randomizer j: r is what the operation yielded
Drawn(j, op, r) ==
    rnd' = [rnd EXCEPT ![j] =
              [@ EXCEPT !.hash = r.h,
                        !.calls = @ + 1,
                        !.ops = Append(@, op),
                        !.rets = Append(@, <<r.err, r.v>>)]]

\* number(min, max)
Number(j, min, max) ==
    /\ rnd[j].calls < MaxCalls
    /\ LET r == number(rnd[j].hash, min, max)
       IN  /\ Drawn(j, <<"number", min, max>>, r)
           /\ call' = [op |-> "number", inst |-> j, n |-> 0,
                       weights |-> <<min, max>>,
                       pre |-> rnd[j].hash, v |-> r.v, err |-> r.err]
    /\ UNCHANGED <<cfg, gen>>

\* boolean(bias)
Boolean(j, bias) ==
    /\ rnd[j].calls < MaxCalls
    /\ LET r == boolean(rnd[j].hash, bias)
       IN  /\ Drawn(j, <<"boolean", bias>>, r)
           /\ call' = [op |-> "boolean", inst |-> j, n |-> 0,
                       weights |-> <<bias>>,
                       pre |-> rnd[j].hash, v |-> r.v, err |-> r.err]
    /\ UNCHANGED <<cfg, gen>>

\* choice(arr, weights) on the array of the items 0 .. n-1
Choice(j, n, weights) ==
    /\ rnd[j].calls < MaxCalls
    /\ LET r == choice(rnd[j].hash, Items(n), weights)
       IN  /\ Drawn(j, <<"choice", n, weights>>, r)
           /\ call' = [op |-> "choice", inst |-> j, n |-> n,
                       weights |-> weights,
                       pre |-> rnd[j].hash, v |-> r.v, err |-> r.err]
    /\ UNCHANGED <<cfg, gen>>

\* getChoiceIndex(arr, weights) on an array of n items
GetChoiceIndex(j, n, weights) ==
    /\ rnd[j].calls < MaxCalls
    /\ LET r == getChoiceIndex(rnd[j].hash, Items(n), weights)
       IN  /\ Drawn(j, <<"getChoiceIndex", n, weights>>, r)
           /\ call' = [op |-> "getChoiceIndex", inst |-> j, n |-> n,
                       weights |-> weights,
                       pre |-> rnd[j].hash, v |-> r.v, err |-> r.err]
    /\ UNCHANGED <<cfg, gen>>

NoConfig == MakeConfig(0, 50, NoColorWeights, SmallSize, FALSE, FALSE, FALSE,
                       PlainColors, <<>>)

\* two randomizers of one salt
InitRand ==
    /\ cfg = NoConfig
    /\ gen = <<>>
    /\ \E salt \in Salts : rnd = [j \in {1, 2} |-> NewRandomizer(salt)]
    /\ call = [op |-> None, inst |-> 0, n |-> 0, weights |-> NoWeights,
               pre |-> 0, v |-> None, err |-> None]

NextRand ==
    \E j \in DOMAIN rnd :
        \/ \E str \in Seeds : SetSeed(j, str)
        \/ Number(j, 0, 5)
        \/ Boolean(j, 30)
        \/ Choice(j, 3, <<100, 100, 200>>)

SpecRand == InitRand /\ [][NextRand]_vars

\* weights 0, 0.5, 1, 2, 10 and 20
WeightValues == {0, 50, 100, 200, 1000, 2000}

\* every vector of at most MaxItems weights, and no vector at all
WeightVectors ==
    {NoWeights}
    \cup UNION {[1 .. k -> WeightValues] : k \in 0 .. MaxItems}

\* hash states: the residues of every total weight within the bounds, and
\* the ends of the 32-bit range
HashSamples ==
    (0 - 3 .. 64) \cup {MinInt32, MinInt32 + 1, 0 - (MinInt32 + 1),
                        3007, 97247, 0 - 93228}

\* one randomizer in any sampled hash state, and the arguments of one call
InitChoice ==
    /\ cfg = NoConfig
    /\ gen = <<>>
    /\ \E h \in HashSamples :
           rnd = [j \in {1} |-> [NewRandomizer(0) EXCEPT !.hash = h]]
    /\ \E n \in 0 .. MaxItems, w \in WeightVectors :
           call = [op |-> "pending", inst |-> 1, n |-> n, weights |-> w,
                   pre |-> 0, v |-> None, err |-> None]

\* the call is made, as choice or as getChoiceIndex
NextChoice ==
    /\ call.op = "pending"
    /\ \/ Choice(1, call.n, call.weights)
       \/ GetChoiceIndex(1, call.n, call.weights)

SpecChoice == InitChoice /\ [][NextChoice]_vars

(***************************************************************************)
(* Properties of the randomizer.                                           *)
(***************************************************************************)
\* C3: for a fixed salt and seed, what a sequence of draws made after
\* setSeed(seed) returns, and the hash it leaves, do not depend on what was
\* done to the randomizer before that setSeed: neither on earlier draws nor
\* on earlier setSeed calls.
ReproducibleDraws ==
    \A i \in DOMAIN rnd, j \in DOMAIN rnd :
        (/\ rnd[i].salt = rnd[j].salt
         /\ rnd[i].seed = rnd[j].seed
         /\ rnd[i].ops = rnd[j].ops)
            => (rnd[i].rets = rnd[j].rets /\ rnd[i].hash = rnd[j].hash)

\* one randomizer drew, had its seed set twice and drew again; the other
\* had the same seed set once and made the same draw
ReproducibleDrawsWitness ==
    /\ DOMAIN rnd = {1, 2}
    /\ rnd[1].reseeded /\ rnd[1].calls > Len(rnd[1].ops)
    /\ rnd[2].seeded /\ ~rnd[2].reseeded /\ rnd[2].calls = Len(rnd[2].ops)
    /\ rnd[1].seed = rnd[2].seed /\ rnd[1].seed # <<>>
    /\ rnd[1].ops = rnd[2].ops /\ rnd[1].ops # <<>>
    /\ rnd[1].rets = rnd[2].rets

WeightedCall(op) ==
    /\ call.op = op
    /\ call.weights # NoWeights
    /\ Len(call.weights) = call.n

\* C7: getChoiceIndex on two or more items, with a weight per item of which
\* at least one is positive, never returns an index whose weight is 0.
ZeroWeightNeverSelected ==
    (/\ WeightedCall("getChoiceIndex")
     /\ call.n >= 2
     /\ \E k \in DOMAIN call.weights : call.weights[k] > 0)
        => (call.err = None /\ call.weights[call.v + 1] # 0)

\* the weights are positive integers (whole multiples of one unit)
PositiveIntegers(w) == \A k \in DOMAIN w : w[k] > 0 /\ w[k] % Scale = 0

RECURSIVE SumTo(_, _)
SumTo(w, i) == IF i = 0 THEN 0 ELSE SumTo(w, i - 1) + w[i]

\* item v is the one whose share of the total T holds the draw of the hash
SelectedByShare(w, v) ==
    LET T == SumTo(w, Len(w))
        r == AbsMod(call.pre, T) + 1
    IN  /\ v \in 0 .. Len(w) - 1
        /\ SumTo(w, v) < r
        /\ r <= SumTo(w, v + 1)

\* C8, as claimed: with positive integer weights w of total T, choice
\* selects item i exactly for the draws r in [1, T] with
\* w[0]+...+w[i-1] < r <= w[0]+...+w[i].
WeightedChoiceByTotal ==
    (WeightedCall("choice") /\ call.n >= 1 /\ PositiveIntegers(call.weights))
        => (/\ call.err = None
            /\ SelectedByShare([k \in DOMAIN call.weights |->
                                   call.weights[k] \div Scale], call.v))

\* the largest power of ten that divides every weight
CommonPowerOfTen(w) ==
    Pow10(SetMax({k \in 0 .. 9 : \A i \in DOMAIN w : w[i] % Pow10(k) = 0}))

\* C8, amended: the shares are those of the weights divided by the largest
\* power of ten that divides all of them, and T is their total.
WeightedChoiceByReducedTotal ==
    (WeightedCall("choice") /\ call.n >= 1 /\ PositiveIntegers(call.weights))
        => LET w == [k \in DOMAIN call.weights |-> call.weights[k] \div Scale]
           IN  /\ call.err = None
               /\ SelectedByShare([k \in DOMAIN w |->
                                      w[k] \div CommonPowerOfTen(w)], call.v)

\* weights 1, 1, 2 and the draw 3 of 4: the third item is selected
WeightedChoiceWitness ==
    /\ call.op = "choice"
    /\ call.weights = <<100, 100, 200>>
    /\ call.n = 3
    /\ call.pre = 2
    /\ call.v = 2

\* C9: choice and getChoiceIndex on a non-empty array, given a weight vector
\* of another length, fail with WeightLengthMismatch and leave the hash as
\* it was, a single-element array included.
MismatchFails ==
    (/\ call.op \in {"choice", "getChoiceIndex"}
     /\ call.n >= 1
     /\ call.weights # NoWeights
     /\ Len(call.weights) # call.n)
        => (/\ call.err = "WeightLengthMismatch"
            /\ rnd[call.inst].hash = call.pre)

\* a single item and two weights: the call failed
MismatchFailsWitness ==
    /\ call.op = "choice"
    /\ call.n = 1
    /\ Len(call.weights) = 2
    /\ call.err = "WeightLengthMismatch"
    /\ rnd[call.inst].hash = call.pre

(***************************************************************************)
(* Properties of the grid after build().                                   *)
(***************************************************************************)
Built(i) == gen[i].builds >= 1

Filled(i) == {p \in DOMAIN gen[i].fill : gen[i].fill[p]}

\* C4: after every build(), whatever the seed, size, fill probability,
\* symmetry flag and ensureFill setting and however many builds came
\* before, the horizontal mirror (r, columns-1-c) of every filled cell
\* (r, c) is filled.
HorizontalMirroring ==
    \A i \in DOMAIN gen :
        Built(i) =>
            \A p \in Filled(i) :
                gen[i].fill[<<p[1], cfg.grid.size.columns - 1 - p[2]>>]

\* a second build that left a filled cell off the middle column, without
\* vertical symmetry
HorizontalMirroringWitness ==
    \E i \in DOMAIN gen :
        /\ gen[i].builds = 2
        /\ ~cfg.grid.verticalSymmetry
        /\ \E p \in Filled(i) : cfg.grid.size.columns - 1 - p[2] # p[2]
        /\ \E p \in DOMAIN gen[i].fill : ~gen[i].fill[p]

\* C5: with verticalSymmetry enabled, after every build(), the edge
\* guarantee steps included, the vertical mirror (rows-1-r, c) of every
\* filled cell (r, c) is filled.
VerticalSymmetry ==
    \A i \in DOMAIN gen :
        (Built(i) /\ cfg.grid.verticalSymmetry) =>
            \A p \in Filled(i) :
                gen[i].fill[<<cfg.grid.size.rows - 1 - p[1], p[2]>>]

\* a symmetric build with both edge guarantees on and nothing filled by the
\* base generation, leaving a filled cell off the middle row
VerticalSymmetryWitness ==
    \E i \in DOMAIN gen :
        /\ Built(i)
        /\ cfg.grid.verticalSymmetry
        /\ cfg.grid.ensureFill.topBottom /\ cfg.grid.ensureFill.leftRight
        /\ cfg.randomizer.bias.cellFillProbability = 0
        /\ \E p \in Filled(i) : cfg.grid.size.rows - 1 - p[1] # p[1]
        /\ \E p \in DOMAIN gen[i].fill : ~gen[i].fill[p]

\* C6: after build(), with ensureFill.topBottom the first and the last row
\* each hold a filled cell, and with ensureFill.leftRight the first and the
\* last column each hold a filled cell, for every seed and size, also when
\* the fill probability is 0.
EdgeGuarantee ==
    \A i \in DOMAIN gen :
        Built(i) =>
            /\ cfg.grid.ensureFill.topBottom =>
                  /\ \E p \in Filled(i) : p[1] = 0
                  /\ \E p \in Filled(i) : p[1] = cfg.grid.size.rows - 1
            /\ cfg.grid.ensureFill.leftRight =>
                  /\ \E p \in Filled(i) : p[2] = 0
                  /\ \E p \in Filled(i) : p[2] = cfg.grid.size.columns - 1

\* a first build with fill probability 0, without vertical symmetry, on a
\* grid of several rows and columns, with the top/bottom guarantee only
EdgeGuaranteeWitness ==
    \E i \in DOMAIN gen :
        /\ gen[i].builds = 1
        /\ cfg.randomizer.bias.cellFillProbability = 0
        /\ cfg.grid.ensureFill.topBottom /\ ~cfg.grid.ensureFill.leftRight
        /\ ~cfg.grid.verticalSymmetry
        /\ cfg.grid.size.rows > 1 /\ cfg.grid.size.columns > 1
        /\ \E p \in Filled(i) : p[1] = 0
        /\ \E p \in Filled(i) : p[1] = cfg.grid.size.rows - 1

(***************************************************************************)
(* Determinism of buildFrom.                                               *)
(***************************************************************************)
SameOutput(i, j) == gen[i].fill = gen[j].fill /\ gen[i].doc = gen[j].doc

\* C1: two freshly constructed generators of one configuration that each
\* ran buildFrom once, with the same seed, hold the same fill pattern and
\* the same document (pattern and resolved colours), whatever draws were
\* made on the randomizers in between.
FreshDeterminism ==
    \A i \in DOMAIN gen, j \in DOMAIN gen :
        (gen[i].builds = 1 /\ gen[j].builds = 1 /\ gen[i].seed = gen[j].seed)
            => SameOutput(i, j)

\* two generators built once from the same seed, one of them after a draw
\* on its randomizer, holding a document of a pattern neither empty nor full
FreshDeterminismWitness ==
    /\ DOMAIN gen = {1, 2}
    /\ gen[1].builds = 1 /\ gen[2].builds = 1
    /\ gen[1].seed = gen[2].seed
    /\ gen[1].draws = 1 /\ gen[2].draws = 0
    /\ gen[1].hash = gen[2].hash
    /\ gen[1].doc # <<>>
    /\ \E p \in DOMAIN gen[1].fill : gen[1].fill[p]
    /\ \E p \in DOMAIN gen[1].fill : ~gen[1].fill[p]

\* C2: the output of buildFrom(seed) depends on the salt, the seed and the
\* configuration only: a generator that ran buildFrom before holds after
\* buildFrom(seed) what a fresh generator holds after buildFrom(seed).
SameSeedSameOutput ==
    \A i \in DOMAIN gen, j \in DOMAIN gen :
        (gen[i].builds >= 1 /\ gen[j].builds = 1 /\ gen[i].seed = gen[j].seed)
            => SameOutput(i, j)

(***************************************************************************)
(* Errors of colour resolution.                                            *)
(***************************************************************************)
\* the categories configured with a weight vector of another length than
\* their colour array
Mismatched ==
    {c \in CategorySet :
        cfg.given[c] # NoWeights /\ Len(cfg.given[c]) # cfg.svg.colors[c]}

\* C10: when a category is configured with a weight vector of another length
\* than its colour array, buildFrom fails with an error naming such a
\* category.  (The claim asks this of every such category; a state that
\* violates this formula violates the claim.)
MismatchIsReported ==
    (call.op = "buildFrom" /\ Mismatched # {})
        => (call.err # None /\ call.category \in Mismatched)

(***************************************************************************)
(* Construction of a Grid on its own.  A row or column count is a number  *)
(* of hundredths (150 is 1.5), config.size is a number or {rows, columns}. *)
(* call is the constructor call: its argument and what it left: the error, *)
(* the normalized size and the cells allocated.                            *)
(***************************************************************************)
SizeAsNumber(n) == [kind |-> "number", n |-> n]

SizeAsObject(rows, columns) ==
    [kind |-> "object", rows |-> rows, columns |-> columns]

\* Number.isInteger
isInteger(x) == x % Scale = 0

\* the variant of getNormalizedSize that accepts fractional counts
getNormalizedSizeNoIntegerTest(size) ==
    LET rows == IF size.kind = "number" THEN size.n ELSE size.rows
        columns == IF size.kind = "number" THEN size.n ELSE size.columns
    IN  IF rows <= 0 \/ columns <= 0
        THEN [err |-> "InvalidDimensions", rows |-> 0, columns |-> 0]
        ELSE [err |-> None, rows |-> rows \div Scale,
              columns |-> columns \div Scale]

\* getNormalizedSize(): throws 'Rows and columns must both be a positive
\* integer', or yields {rows, columns} (here in whole units)
getNormalizedSize(size) ==
    LET rows == IF size.kind = "number" THEN size.n ELSE size.rows
        columns == IF size.kind = "number" THEN size.n ELSE size.columns
    IN  IF rows <= 0 \/ columns <= 0 \/ ~isInteger(rows) \/ ~isInteger(columns)
        THEN [err |-> "InvalidDimensions", rows |-> 0, columns |-> 0]
        ELSE [err |-> None, rows |-> rows \div Scale,
              columns |-> columns \div Scale]

\* what new Grid(config) leaves, norm being what getNormalizedSize yielded:
\* the cells are allocated after the size was accepted
gridConstructed(size, norm) ==
    [op |-> "newGrid", kind |-> "grid", size |-> size, err |-> norm.err,
     rows |-> norm.rows, columns |-> norm.columns,
     cells |-> IF norm.err = None
               THEN getInitialGrid([rows |-> norm.rows, columns |-> norm.columns])
               ELSE <<>>]

\* new Grid(config): this.size = getNormalizedSize(); this.grid = getInitialGrid()
NewGrid ==
    /\ call.op = "pending"
    /\ call.kind = "grid"
    /\ call' = gridConstructed(call.size, getNormalizedSize(call.size))
    /\ UNCHANGED <<cfg, gen, rnd>>

\* counts from -1 to the bound in steps of one half
RowCounts == {k * (Scale \div 2) : k \in 0 - 2 .. 2 * MaxRows}

ColumnCounts == {k * (Scale \div 2) : k \in 0 - 2 .. 2 * MaxColumns}

SizeInputs ==
    {SizeAsNumber(n) : n \in RowCounts}
        \cup {SizeAsObject(r, c) : r \in RowCounts, c \in ColumnCounts}

(***************************************************************************)
(* Construction of the renderer on its own.  A rounding fraction is a     *)
(* number of hundredths; the colour arrays are modelled by their lengths. *)
(***************************************************************************)
\* validateCellRounding()
validateCellRounding(cellRounding) ==
    IF \/ cellRounding.inner < 0 \/ cellRounding.inner > Scale
       \/ cellRounding.outer < 0 \/ cellRounding.outer > Scale
    THEN "InvalidRounding" ELSE None

\* validateColorArrays(): the throw; the warnings change nothing
validateColorArrays(colors) ==
    IF colors["background"] = 0 \/ colors["cellFill"] = 0
    THEN "EmptyColors" ELSE None

\* validateLockedColorArrays(): every locked array against the first one
validateLockedColorArrays(colors, lockColors) ==
    IF \E k \in DOMAIN lockColors : colors[lockColors[k]] # colors[lockColors[1]]
    THEN "LockedLengths" ELSE None

\* the variant of validateConfig that leaves the locked arrays unchecked
validateConfigNoLocked(sv) ==
    IF validateCellRounding(sv.cellRounding) # None
    THEN validateCellRounding(sv.cellRounding)
    ELSE validateColorArrays(sv.colors)

\* validateConfig(): the first of the three validations that throws
validateConfig(sv) ==
    IF validateCellRounding(sv.cellRounding) # None
    THEN validateCellRounding(sv.cellRounding)
    ELSE IF validateColorArrays(sv.colors) # None
    THEN validateColorArrays(sv.colors)
    ELSE validateLockedColorArrays(sv.colors, sv.lockColors)

\* new SVG(config): this.string is '' (here <<>>), validateConfig() runs and
\* no colour is picked; pre is the hash of the randomizer behind the picker
NewSVG ==
    /\ call.op = "pending"
    /\ call.kind = "svg"
    /\ call' = [op |-> "newSVG", kind |-> "svg", config |-> call.config,
                err |-> validateConfig(call.config), doc |-> <<>>,
                pre |-> rnd[1].hash]
    /\ UNCHANGED <<cfg, gen, rnd>>

\* rounding fractions -0.5, 0, 0.5, 1 and 1.5
Roundings == {0 - 50, 0, 50, 100, 150}

\* lockColors: 'all' is every category
LockInputs == Locks \cup {colorCategories}

SVGInputs ==
    {[cellRounding |-> [inner |-> ri, outer |-> ro],
      colors |-> [c \in CategorySet |->
                     IF c = "background" THEN nb
                     ELSE IF c = "cellFill" THEN nf
                     ELSE IF c = "cellStroke" THEN ns ELSE 0],
      lockColors |-> lock] :
        ri \in Roundings, ro \in Roundings, nb \in {0, 1}, nf \in 0 .. 2,
        ns \in {0, 2}, lock \in LockInputs}

\* one constructor call on its argument, beside a randomizer
InitNew ==
    /\ cfg = NoConfig
    /\ gen = <<>>
    /\ rnd = [j \in {1} |-> NewRandomizer(0)]
    /\ \/ \E size \in SizeInputs :
              call = [op |-> "pending", kind |-> "grid", size |-> size]
       \/ \E sv \in SVGInputs :
              call = [op |-> "pending", kind |-> "svg", config |-> sv]

NextNew == NewGrid \/ NewSVG

SpecNew == InitNew /\ [][NextNew]_vars

(***************************************************************************)
(* Properties of the constructors.                                         *)
(***************************************************************************)
\* a count is valid when it is a positive integer
ValidCount(x) == x > 0 /\ x % Scale = 0

\* C11: constructing a Grid whose row or column count, given as one number
\* or as {rows, columns}, is not a positive integer fails and allocates no
\* cell; for every valid size it succeeds with exactly rows x columns
\* cells, all empty.
GridConstruction ==
    call.op = "newGrid" =>
        LET rows == IF call.size.kind = "number" THEN call.size.n
                    ELSE call.size.rows
            columns == IF call.size.kind = "number" THEN call.size.n
                       ELSE call.size.columns
        IN  IF ValidCount(rows) /\ ValidCount(columns)
            THEN /\ call.err = None
                 /\ DOMAIN call.cells =
                        (0 .. (rows \div Scale) - 1) \X (0 .. (columns \div Scale) - 1)
                 /\ Cardinality(DOMAIN call.cells) =
                        (rows \div Scale) * (columns \div Scale)
                 /\ \A p \in DOMAIN call.cells : ~call.cells[p]
            ELSE /\ call.err = "InvalidDimensions"
                 /\ DOMAIN call.cells = {}

\* {rows: 2, columns: 1.5}: the construction failed, no cell was allocated
GridConstructionWitness ==
    /\ call.op = "newGrid"
    /\ call.size = SizeAsObject(200, 150)
    /\ call.err = "InvalidDimensions"
    /\ DOMAIN call.cells = {}

\* the configuration is one the claim says must be refused
RefusedByClaim(sv) ==
    \/ sv.cellRounding.inner < 0 \/ sv.cellRounding.inner > 100
    \/ sv.cellRounding.outer < 0 \/ sv.cellRounding.outer > 100
    \/ sv.colors["background"] = 0
    \/ sv.colors["cellFill"] = 0
    \/ \E k \in DOMAIN sv.lockColors, m \in DOMAIN sv.lockColors :
           sv.colors[sv.lockColors[k]] # sv.colors[sv.lockColors[m]]

\* C12: constructing the renderer fails, with no draw made and no document
\* stored, when a rounding fraction is outside [0,1], when the background
\* or the cellFill array is empty, or when the locked arrays differ in
\* length.
RendererValidation ==
    (call.op = "newSVG" /\ RefusedByClaim(call.config))
        => (/\ call.err # None
            /\ call.doc = <<>>
            /\ rnd[1].hash = call.pre)

\* valid roundings and arrays, cellFill of 2 colours locked to cellStroke of
\* none: the construction failed
RendererValidationWitness ==
    /\ call.op = "newSVG"
    /\ call.config.cellRounding = [inner |-> 50, outer |-> 100]
    /\ call.config.colors["background"] = 1
    /\ call.config.colors["cellFill"] = 2
    /\ call.config.colors["cellStroke"] = 0
    /\ call.config.lockColors = <<"cellFill", "cellStroke">>
    /\ call.err = "LockedLengths"

(***************************************************************************)
(* The stored document.                                                    *)
(***************************************************************************)
\* a document of the pattern fill with a colour of its array for the
\* background and the cell fill, and for every other category either a
\* colour of its array or none
CompleteDocument(doc, fill) ==
    /\ doc = Document(fill, doc[2])
    /\ \A c \in CategorySet :
           \/ doc[2][c] \in 0 .. cfg.svg.colors[c] - 1
           \/ doc[2][c] = Undefined /\ c \notin {"background", "cellFill"}

\* C13: the stored document of a generator changes only in a buildFrom on
\* that generator that ends without error, and then to a complete document
\* of the pattern built; a buildFrom that fails leaves it as it was.
NoPartialDocument ==
    [][\A i \in DOMAIN gen :
          gen'[i].doc # gen[i].doc =>
              /\ call'.op = "buildFrom" /\ call'.inst = i /\ call'.err = None
              /\ CompleteDocument(gen'[i].doc, gen'[i].fill)]_vars

\* a buildFrom that failed at colour resolution after the grid was built:
\* cells are filled, no document is stored
NoPartialDocumentWitness ==
    /\ call.op = "buildFrom"
    /\ call.err = "WeightLengthMismatch"
    /\ \E p \in DOMAIN gen[call.inst].fill : gen[call.inst].fill[p]
    /\ gen[call.inst].doc = <<>>

(***************************************************************************)
(* The extremes of the fill probability.                                   *)
(***************************************************************************)
\* C14: with cellFillProbability 1 every cell is filled after build(), for
\* every seed, size and symmetry setting; with cellFillProbability 0 and
\* both ensureFill options off no cell is filled after the first build().
FillProbabilityExtremes ==
    \A i \in DOMAIN gen :
        /\ (Built(i) /\ cfg.randomizer.bias.cellFillProbability = Scale)
              => \A p \in DOMAIN gen[i].fill : gen[i].fill[p]
        /\ (/\ gen[i].builds = 1
            /\ cfg.randomizer.bias.cellFillProbability = 0
            /\ ~cfg.grid.ensureFill.topBottom
            /\ ~cfg.grid.ensureFill.leftRight)
              => \A p \in DOMAIN gen[i].fill : ~gen[i].fill[p]

\* a 3x3 grid built with probability 1 and vertical symmetry: all 9 cells
\* are filled
FillProbabilityExtremesWitness ==
    \E i \in DOMAIN gen :
        /\ Built(i)
        /\ cfg.randomizer.bias.cellFillProbability = Scale
        /\ cfg.grid.verticalSymmetry
        /\ cfg.grid.size = [rows |-> 3, columns |-> 3]
        /\ Cardinality(Filled(i)) = 9

(***************************************************************************)
(* Locked colours.                                                         *)
(***************************************************************************)
\* how many times x occurs in seq
Count(seq, x) == Cardinality({k \in DOMAIN seq : seq[k] = x})

\* C15: in every successful build the categories of the locked group all
\* resolve to one index, within each of their arrays; the group is picked
\* once, on its first category; every unlocked category that has colours is
\* picked once on its own, and no other pick is made.
LockedColors ==
    (call.op = "buildFrom" /\ call.err = None) =>
        LET res == gen[call.inst].doc[2]
            lock == cfg.svg.lockColors
        IN  /\ \A k \in DOMAIN lock :
                   /\ res[lock[k]] = res[lock[1]]
                   /\ res[lock[k]] \in 0 .. cfg.svg.colors[lock[k]] - 1
            /\ \A c \in CategorySet :
                   Count(call.picks, c) =
                       IF Len(lock) > 0 /\ c = lock[1] THEN 1
                       ELSE IF InSeq(c, lock) THEN 0
                       ELSE IF cfg.svg.colors[c] > 0 THEN 1 ELSE 0

\* cellStroke locked to cellFill, two colours each: both resolved to the
\* second colour, by one pick on cellStroke, beside the pick of a background
LockedColorsWitness ==
    /\ call.op = "buildFrom"
    /\ call.err = None
    /\ cfg.svg.lockColors = <<"cellStroke", "cellFill">>
    /\ gen[call.inst].doc[2]["cellFill"] = 1
    /\ gen[call.inst].doc[2]["cellStroke"] = 1
    /\ call.picks = <<"cellStroke", "background">>

(***************************************************************************)
(* Construction of generators one after the other.  cfg starts as the     *)
(* default configuration object; every `new GummyGrid(config)` merges     *)
(* config into that object and keeps it as this.config.  A caller's       *)
(* configuration is a record of the leaves it sets: salt,                 *)
(* cellFillProbability, rows, columns, topBottom, leftRight,              *)
(* verticalSymmetry, cellFill and cellStroke (colour arrays, by length),  *)
(* cellFillWeights (colorWeights.cellFill) and lockColors.  A generator   *)
(* built here also records user, the configuration it was given, and made, *)
(* the content of this.config when its constructor returned.               *)
(***************************************************************************)
MaxGenerators == 2

\* svg.colors of the default configuration: 1 background, 12 cell fills
DefaultColors ==
    [c \in CategorySet |->
        IF c = "background" THEN 1 ELSE IF c = "cellFill" THEN 12 ELSE 0]

DEFAULT_AVATAR_GENERATOR_CONFIG ==
    MakeConfig(0, 50, NoColorWeights, [rows |-> 5, columns |-> 5],
               FALSE, FALSE, FALSE, DefaultColors, <<>>)

\* obj1[p] = obj2[p] when obj2 has the leaf p, obj1[p] as it was otherwise
Leaf(obj2, p, old) == IF p \in DOMAIN obj2 THEN obj2[p] ELSE old

\* mergeObjectsRecursively(obj1, obj2): plain objects are merged in place
\* key by key, any other value replaces the one of obj1; obj1 is returned
mergeObjectsRecursively(obj1, obj2) ==
    LET w == [obj1.randomizer.bias.colorWeights EXCEPT
                 !["cellFill"] = Leaf(obj2, "cellFillWeights", @)]
    IN  [randomizer |->
             [salt |-> Leaf(obj2, "salt", obj1.randomizer.salt),
              bias |-> [cellFillProbability |->
                            Leaf(obj2, "cellFillProbability",
                                 obj1.randomizer.bias.cellFillProbability),
                        colorWeights |-> w]],
         grid |->
             [size |-> [rows |-> Leaf(obj2, "rows", obj1.grid.size.rows),
                        columns |-> Leaf(obj2, "columns", obj1.grid.size.columns)],
              ensureFill |->
                  [topBottom |-> Leaf(obj2, "topBottom", obj1.grid.ensureFill.topBottom),
                   leftRight |-> Leaf(obj2, "leftRight", obj1.grid.ensureFill.leftRight)],
              verticalSymmetry |->
                  Leaf(obj2, "verticalSymmetry", obj1.grid.verticalSymmetry)],
         svg |->
             [colors |-> [obj1.svg.colors EXCEPT
                             !["cellFill"] = Leaf(obj2, "cellFill", @),
                             !["cellStroke"] = Leaf(obj2, "cellStroke", @)],
              lockColors |-> Leaf(obj2, "lockColors", obj1.svg.lockColors)],
         given |-> w]

\* the configuration object once connectLockedColorWeights() has run
connected(c) ==
    [c EXCEPT !.randomizer.bias.colorWeights =
                  connectLockedColorWeights(@, c.svg.lockColors)]

\* new GummyGrid(config): the merge, the randomizer, the grid, the renderer
\* with its validation, connectLockedColorWeights
Construct(user) ==
    /\ Len(gen) < MaxGenerators
    /\ \E m \in {mergeObjectsRecursively(cfg, user)} :
           IF validColors(m.svg.colors, m.svg.lockColors)
           THEN /\ cfg' = connected(m)
                /\ gen' = Append(gen, NewGenerator(m) @@
                                      [user |-> user, made |-> connected(m)])
                /\ call' = [NoCall EXCEPT !.op = "new", !.inst = Len(gen) + 1]
           ELSE /\ cfg' = m
                /\ gen' = gen
                /\ call' = [NoCall EXCEPT !.op = "new", !.err = "InvalidColors"]
    /\ UNCHANGED rnd

\* new GummyGrid(): no configuration
NoUser == [p \in {} |-> 0]

UserConfigs ==
    {NoUser,
     [cellFillProbability |-> 100],
     [rows |-> 2, columns |-> 2, cellFillProbability |-> 0],
     [cellFill |-> 2, cellFillWeights |-> <<100, 200>>],
     [cellStroke |-> 2, lockColors |-> <<"cellFill", "cellStroke">>],
     [salt |-> 7, topBottom |-> TRUE]}

InitShared ==
    /\ cfg = DEFAULT_AVATAR_GENERATOR_CONFIG
    /\ gen = <<>>
    /\ rnd = <<>>
    /\ call = NoCall

NextShared ==
    \/ \E user \in UserConfigs : Construct(user)
    \/ \E i \in DOMAIN gen, value \in Seeds : BuildFrom(i, value)
    \/ \E i \in DOMAIN gen : Draw(i)

SpecShared == InitShared /\ [][NextShared]_vars

\* C16: constructing a generator with a caller's configuration changes
\* neither the default configuration nor the configuration held by any
\* generator constructed before, and a generator constructed without a
\* configuration holds the defaults.
InstancesIsolated ==
    /\ cfg = DEFAULT_AVATAR_GENERATOR_CONFIG
    /\ \A i \in DOMAIN gen :
           /\ cfg = gen[i].made
           /\ gen[i].user = NoUser => gen[i].made = DEFAULT_AVATAR_GENERATOR_CONFIG

(***************************************************************************)
(* One call of a randomizer in a given hash state: number(min, max),      *)
(* boolean(bias), choice or getChoiceIndex.                                *)
(***************************************************************************)
\* the hash states of HashSamples, and every residue of a total weight 100
DrawHashes == HashSamples \cup (65 .. 120) \cup {0 - 100, 0 - 50, 12345678}

\* the arguments <<min, max>> of number, min <= max
Ranges ==
    {r \in (0 - 3 .. 3) \X {0 - 3, 0, 1, 4, 7, 998, 999, 1000} : r[1] <= r[2]}

\* the arguments of boolean: none, and 0, 0.25, 0.3, 0.5, 0.75, 0.9, 1, 1.5,
\* 3, 10, 20, 25 and 100
BiasInputs ==
    {NoBias, 0, 25, 30, 50, 75, 90, 100, 150, 300, 1000, 2000, 2500, 10000}

Pending(kind, n, weights) ==
    [op |-> "pending", kind |-> kind, inst |-> 1, n |-> n, weights |-> weights,
     pre |-> 0, v |-> None, err |-> None]

InitDraw ==
    /\ cfg = NoConfig
    /\ gen = <<>>
    /\ \/ /\ \E h \in DrawHashes :
                 rnd = [j \in {1} |-> [NewRandomizer(0) EXCEPT !.hash = h]]
          /\ \/ \E r \in Ranges : call = Pending("number", 0, r)
             \/ \E bias \in BiasInputs : call = Pending("boolean", 0, <<bias>>)
       \/ /\ \E h \in HashSamples :
                 rnd = [j \in {1} |-> [NewRandomizer(0) EXCEPT !.hash = h]]
          /\ \E n \in 0 .. MaxItems, w \in WeightVectors :
                 call = Pending("choice", n, w)

NextDraw ==
    /\ call.op = "pending"
    /\ \/ call.kind = "number" /\ Number(1, call.weights[1], call.weights[2])
       \/ call.kind = "boolean" /\ Boolean(1, call.weights[1])
       \/ call.kind = "choice" /\ Choice(1, call.n, call.weights)
       \/ call.kind = "choice" /\ GetChoiceIndex(1, call.n, call.weights)

SpecDraw == InitDraw /\ [][NextDraw]_vars

\* |h| mod m, |-2^31| being one more than |-2^31 + 1|
AbsoluteMod(h, m) ==
    IF h = MinInt32 THEN ((Abs(h + 1) % m) + 1) % m ELSE Abs(h) % m

\* three moduli, coprime in pairs, of product above 2^37
Moduli == {46335, 46336, 46337}

\* 2^32 mod m
TwoTo32Mod(m) == ((Half % m) * (Half % m)) % m

\* hn is the signed 32-bit wrap of 31 * h + d, for 0 <= d <= 1000: it is
\* 31 * h + d - k * 2^32 for some k, two numbers less than the product of
\* the moduli apart being equal when they agree modulo each of them
WrapOf31(hn, h, d) ==
    /\ MinInt32 <= hn /\ hn <= 0 - (MinInt32 + 1)
    /\ \E k \in 0 - 16 .. 16 :
           \A m \in Moduli :
               hn % m = (31 * (h % m) + d - k * TwoTo32Mod(m)) % m

\* hn is the hash h advanced once
AdvancedOnce(hn, h) == WrapOf31(hn, h, AbsoluteMod(h, 999) + 1)

\* C17: from any hash h, number(min, max) with integers min <= max returns
\* |h| mod (max - min + 1) + min, a value of [min, max], and leaves the hash
\* at the signed 32-bit wrap of 31 * h + (|h| mod 999) + 1, whatever min
\* and max.
NumberContract ==
    call.op = "number" =>
        LET min == call.weights[1]
            max == call.weights[2]
        IN  /\ call.err = None
            /\ call.v = AbsoluteMod(call.pre, max - min + 1) + min
            /\ min <= call.v /\ call.v <= max
            /\ WrapOf31(rnd[1].hash, call.pre, AbsoluteMod(call.pre, 999) + 1)

\* number(1, 999) was called at the hash -2^31
NumberContractWitness ==
    /\ call.op = "number"
    /\ call.pre = MinInt32
    /\ call.weights = <<1, 999>>
    /\ call.v = AbsoluteMod(MinInt32, 999) + 1
    /\ rnd[1].hash # call.pre

\* C18: choice and getChoiceIndex on an array of a single item, without
\* weights or with one weight, return that item, or the index 0, and leave
\* the hash as it was; every call of them that selects among two or more
\* items, and every call of boolean, advances the hash exactly once.
DrawCount ==
    /\ (/\ call.op \in {"choice", "getChoiceIndex"}
        /\ call.n = 1
        /\ Len(call.weights) = 1)
           => (/\ call.err = None
               /\ call.v = 0
               /\ rnd[1].hash = call.pre)
    /\ (/\ call.op \in {"choice", "getChoiceIndex"}
        /\ call.n >= 2
        /\ call.err = None)
           => AdvancedOnce(rnd[1].hash, call.pre)
    /\ call.op = "boolean"
           => (call.err = None /\ AdvancedOnce(rnd[1].hash, call.pre))

\* getChoiceIndex returned 0 for a single item without weights, from a hash
\* that a draw would have changed
DrawCountWitness ==
    /\ call.op = "getChoiceIndex"
    /\ call.n = 1
    /\ call.weights = NoWeights
    /\ call.v = 0
    /\ rnd[1].hash = call.pre
    /\ updateHash(call.pre) # call.pre

\* the powers of ten 1 .. 10000, in hundredths
PowersOfTen == {Pow10(k) : k \in MaxPlaces .. MaxPlaces + 4}

\* the least power of ten that is at least p
LeastPowerOfTen(p) ==
    CHOOSE t \in PowersOfTen :
        t >= p /\ \A u \in PowersOfTen : u >= p => t <= u

\* inverse(p): 1 - p below 1, the least power of ten at least p, less p,
\* from 1 on
InverseOf(p) == IF p < Scale THEN Scale - p ELSE LeastPowerOfTen(p) - p

\* the greatest power of ten that divides both a and b, not both 0
SharedPowerOfTen(a, b) ==
    SetMax({t \in {Pow10(k) : k \in 0 .. MaxPlaces + 4} :
                a % t = 0 /\ b % t = 0})

\* C19: boolean(p) is true exactly when (|hash| mod (W + F)) + 1 <= W,
\* where (W, F) is (p, inverse(p)) as integers with every common factor of
\* ten removed; boolean(0) is always false, boolean(1), boolean(10) and
\* boolean(100) are always true, and for an integer p >= 1 the share
\* W / (W + F) of true is p out of the least power of ten at least p.
BooleanContract ==
    (call.op = "boolean" /\ call.weights[1] # NoBias) =>
        LET p == call.weights[1]
            t == SharedPowerOfTen(p, InverseOf(p))
            W == p \div t
            F == InverseOf(p) \div t
        IN  /\ call.err = None
            /\ call.v = (AbsoluteMod(call.pre, W + F) + 1 <= W)
            /\ p = 0 => call.v = FALSE
            /\ p \in PowersOfTen => call.v = TRUE
            /\ (p >= Scale /\ p % Scale = 0)
                   => W * LeastPowerOfTen(p) = p * (W + F)

\* boolean(3) was true at the hash 12, |12| mod 10 + 1 being 3, and
\* boolean(3) was false at the hash 13
BooleanContractWitness ==
    /\ call.op = "boolean"
    /\ call.weights = <<300>>
    /\ \/ call.pre = 12 /\ call.v = TRUE
       \/ call.pre = 13 /\ call.v = FALSE

(***************************************************************************)
(* Cell: neighbours.  A cell is its coordinate <<row, col>>; NoCell is    *)
(* the undefined that getCell returns for a coordinate without a cell.     *)
(***************************************************************************)
NoCell == <<>>

CELL_NEIGHBOR_DIRECTIONS ==
    {"LEFT", "TOP", "RIGHT", "BOTTOM",
     "TOP_LEFT", "TOP_RIGHT", "BOTTOM_RIGHT", "BOTTOM_LEFT"}

getNeighborCoordinates(p, side) ==
    CASE side = "LEFT"         -> <<p[1], p[2] - 1>>
      [] side = "TOP_LEFT"     -> <<p[1] - 1, p[2] - 1>>
      [] side = "TOP"          -> <<p[1] - 1, p[2]>>
      [] side = "TOP_RIGHT"    -> <<p[1] - 1, p[2] + 1>>
      [] side = "RIGHT"        -> <<p[1], p[2] + 1>>
      [] side = "BOTTOM_RIGHT" -> <<p[1] + 1, p[2] + 1>>
      [] side = "BOTTOM"       -> <<p[1] + 1, p[2]>>
      [] side = "BOTTOM_LEFT"  -> <<p[1] + 1, p[2] - 1>>

\* the variant of getCell that looks at the row only
getCellRowOnly(size, coords) ==
    IF coords[1] \notin 0 .. size.rows - 1 THEN NoCell ELSE coords

\* getCell({row, col}): this.grid[row]?.[col]
getCell(size, coords) ==
    IF coords[1] \notin 0 .. size.rows - 1 THEN NoCell
    ELSE IF coords[2] \notin 0 .. size.columns - 1 THEN NoCell
    ELSE coords

\* _getNeighbor({onSide: side}), the status being 'any'
getNeighbor(size, p, side) == getCell(size, getNeighborCoordinates(p, side))

\* neighbor !== undefined && neighbor.isFilled()
filledCell(fill, neighbor) == neighbor # NoCell /\ fill[neighbor]

hasFilledNeighbor(size, fill, p, side) ==
    filledCell(fill, getNeighbor(size, p, side))

\* C20: for every cell and each of the 8 directions, which lead to the 8
\* coordinates around the cell, getNeighbor returns no neighbor exactly
\* when the coordinate is outside the grid, and hasFilledNeighbor is then
\* false; on a grid of 1 x 1 every build, whatever the seed, the symmetry
\* and the ensureFill setting, ends with a pattern on the single cell,
\* filled when ensureFill asks for it, and that cell has no horizontal
\* parallel, no vertical parallel and no neighbor.
NeighborBoundary ==
    \A i \in DOMAIN gen :
        /\ \A p \in Coords(gen[i].size) :
               /\ {getNeighborCoordinates(p, side) : side \in CELL_NEIGHBOR_DIRECTIONS}
                      = {q \in (p[1] - 1 .. p[1] + 1) \X (p[2] - 1 .. p[2] + 1) : q # p}
               /\ \A side \in CELL_NEIGHBOR_DIRECTIONS :
                      /\ (getNeighbor(gen[i].size, p, side) = NoCell)
                             <=> (getNeighborCoordinates(p, side)
                                      \notin Coords(gen[i].size))
                      /\ getNeighborCoordinates(p, side) \notin Coords(gen[i].size)
                             => ~hasFilledNeighbor(gen[i].size, gen[i].fill, p, side)
                      /\ getNeighborCoordinates(p, side) \in Coords(gen[i].size)
                             => (hasFilledNeighbor(gen[i].size, gen[i].fill, p, side)
                                     = gen[i].fill[getNeighborCoordinates(p, side)])
        /\ (Built(i) /\ gen[i].size = [rows |-> 1, columns |-> 1]) =>
               /\ DOMAIN gen[i].fill = {<<0, 0>>}
               /\ gen[i].fill[<<0, 0>>] \in BOOLEAN
               /\ (cfg.grid.ensureFill.topBottom \/ cfg.grid.ensureFill.leftRight)
                      => gen[i].fill[<<0, 0>>]
               /\ ~hasHorizontalParallel(gen[i].size, <<0, 0>>)
               /\ ~hasVerticalParallel(gen[i].size, <<0, 0>>)
               /\ \A side \in CELL_NEIGHBOR_DIRECTIONS :
                      getNeighbor(gen[i].size, <<0, 0>>, side) = NoCell

\* a grid of 1 x 1 with vertical symmetry and both ensureFill settings was
\* built, and its cell is filled
NeighborBoundaryWitness ==
    \E i \in DOMAIN gen :
        /\ Built(i)
        /\ gen[i].size = [rows |-> 1, columns |-> 1]
        /\ gen[i].verticalSymmetry
        /\ cfg.grid.ensureFill.topBottom /\ cfg.grid.ensureFill.leftRight
        /\ call.op = "buildFrom" /\ call.err = None
        /\ gen[i].fill[<<0, 0>>]

(***************************************************************************)
(* Island discovery.  The generator is run to completion; the record     *)
(* threaded through its loops holds the set visited, the cells in the     *)
(* order visited.add received them, the stack and the cells yielded.      *)
(***************************************************************************)
CELL_NEIGHBOR_SIDES == <<"LEFT", "TOP", "RIGHT", "BOTTOM">>

CELL_NEIGHBOR_CORNERS ==
    <<"TOP_LEFT", "TOP_RIGHT", "BOTTOM_RIGHT", "BOTTOM_LEFT">>

\* the variant of neighborDirections without the corners
neighborSidesOnly == CELL_NEIGHBOR_SIDES

\* [...CELL_NEIGHBOR_SIDES, ...CELL_NEIGHBOR_CORNERS], in iteration order
neighborDirections == CELL_NEIGHBOR_SIDES \o CELL_NEIGHBOR_CORNERS

\* iterateCells(): every cell, row by row
iterateCells(size) ==
    [k \in 1 .. size.rows * size.columns |->
        <<(k - 1) \div size.columns, (k - 1) % size.columns>>]

\* visited.add(neighbor); stack.push(neighbor)
visitIsland(st, neighbor) ==
    [st EXCEPT !.visited = @ \cup {neighbor},
               !.adds = Append(@, neighbor),
               !.stack = Append(@, neighbor)]

\* for (const direction of CELL_NEIGHBOR_DIRECTIONS), from direction d on
RECURSIVE islandDirections(_, _, _, _, _)
\* if (neighbor && !visited.has(neighbor) && neighbor.isFilled())
islandNeighbor(size, fill, st, cell, d, neighbor) ==
    IF neighbor # NoCell /\ neighbor \notin st.visited /\ fill[neighbor]
    THEN islandDirections(size, fill, visitIsland(st, neighbor), cell, d + 1)
    ELSE islandDirections(size, fill, st, cell, d + 1)

islandDirections(size, fill, st, cell, d) ==
    IF d > Len(neighborDirections) THEN st
    ELSE islandNeighbor(size, fill, st, cell, d,
                        getNeighbor(size, cell, neighborDirections[d]))

\* while (stack.length > 0) { const cell = stack.pop(); ... }
RECURSIVE islandStack(_, _, _)
islandStack(size, fill, st) ==
    IF st.stack = <<>> THEN st
    ELSE Only({islandStack(size, fill, s) :
                 s \in {islandDirections(size, fill,
                            [st EXCEPT !.stack = SubSeq(@, 1, Len(@) - 1)],
                            st.stack[Len(st.stack)], 1)}})

\* visited.add(cell); the traversal from cell; yield cell
islandFrom(size, fill, st, cell) ==
    [islandStack(size, fill,
                 [st EXCEPT !.visited = @ \cup {cell},
                            !.adds = Append(@, cell),
                            !.stack = <<cell>>])
        EXCEPT !.yielded = Append(@, cell)]

\* for (const cell of this.iterateCells()), from the k-th cell on
RECURSIVE islandCells(_, _, _, _, _)
islandCells(size, fill, st, cells, k) ==
    IF k > Len(cells) THEN st
    ELSE IF cells[k] \in st.visited \/ ~fill[cells[k]]
    THEN islandCells(size, fill, st, cells, k + 1)
    ELSE Only({islandCells(size, fill, s, cells, k + 1) :
                 s \in {islandFrom(size, fill, st, cells[k])}})

iterateIslandCells(size, fill) ==
    islandCells(size, fill,
                [visited |-> {}, adds |-> <<>>, stack |-> <<>>, yielded |-> <<>>],
                iterateCells(size), 1)

(***************************************************************************)
(* Pool discovery.  poolCells and spillCells are Sets iterated in        *)
(* insertion order while they change: each is a sequence without          *)
(* repetition, has() is membership, delete() drops the entry, add()       *)
(* appends it.                                                             *)
(***************************************************************************)
isEdgeCell(size, p) ==
    \/ p[1] = 0
    \/ p[1] = size.rows - 1
    \/ p[2] = 0
    \/ p[2] = size.columns - 1

\* seq without the entry x
Deleted(seq, x) == SelectSeq(seq, LAMBDA y : y # x)

\* the empty cells on the edge, in iteration order
firstSpillCells(size, fill) ==
    SelectSeq(iterateCells(size), LAMBDA p : ~fill[p] /\ isEdgeCell(size, p))

\* the empty cells off the edge, in iteration order
firstPoolCells(size, fill) ==
    SelectSeq(iterateCells(size), LAMBDA p : ~fill[p] /\ ~isEdgeCell(size, p))

\* for (const neighbor of cell.iterateOrthogonalNeighbors()), from side d on
RECURSIVE spillNeighbors(_, _, _, _)
\* if (poolCells.has(neighbor)) { poolCells.delete; spillCells.add }
spillNeighbor(size, st, cell, d, neighbor) ==
    IF neighbor # NoCell /\ InSeq(neighbor, st.pool)
    THEN spillNeighbors(size,
                        [st EXCEPT !.pool = Deleted(@, neighbor),
                                   !.spill = Append(@, neighbor)],
                        cell, d + 1)
    ELSE spillNeighbors(size, st, cell, d + 1)

spillNeighbors(size, st, cell, d) ==
    IF d > Len(CELL_NEIGHBOR_SIDES) THEN st
    ELSE spillNeighbor(size, st, cell, d,
                       getNeighbor(size, cell, CELL_NEIGHBOR_SIDES[d]))

\* for (const cell of spillCells), the cells added on the way included
RECURSIVE spillLoop(_, _, _)
spillLoop(size, st, k) ==
    IF k > Len(st.spill) THEN st
    ELSE Only({spillLoop(size, s, k + 1) :
                 s \in {spillNeighbors(size, st, st.spill[k], 1)}})

\* for (const neighbor of neighborPoolCell.iterateAllNeighbors())
RECURSIVE poolNeighbors(_, _, _, _)
\* if (poolCells.has(neighbor)) stack.push(neighbor)
poolNeighbor(size, st, cell, d, neighbor) ==
    IF neighbor # NoCell /\ InSeq(neighbor, st.pool)
    THEN poolNeighbors(size, [st EXCEPT !.stack = Append(@, neighbor)],
                       cell, d + 1)
    ELSE poolNeighbors(size, st, cell, d + 1)

poolNeighbors(size, st, cell, d) ==
    IF d > Len(neighborDirections) THEN st
    ELSE poolNeighbor(size, st, cell, d,
                      getNeighbor(size, cell, neighborDirections[d]))

\* stack.pop(); poolCells.delete(it); it.markPooled(true)
popped(st) ==
    [st EXCEPT !.stack = SubSeq(@, 1, Len(@) - 1),
               !.pool = Deleted(@, st.stack[Len(st.stack)]),
               !.pooled = [@ EXCEPT ![st.stack[Len(st.stack)]] = TRUE]]

\* while (stack.length) { ... }
RECURSIVE poolStack(_, _)
poolStack(size, st) ==
    IF st.stack = <<>> THEN st
    ELSE Only({poolStack(size, s) :
                 s \in {poolNeighbors(size, popped(st),
                                      st.stack[Len(st.stack)], 1)}})

\* for (const cell of poolCells): the next cell is the first one left
RECURSIVE poolLoop(_, _)
poolLoop(size, st) ==
    IF st.pool = <<>> THEN st
    ELSE Only({poolLoop(size, [s EXCEPT !.yielded = Append(@, st.pool[1])]) :
                 s \in {poolStack(size, [st EXCEPT !.stack = <<st.pool[1]>>])}})

iteratePoolCells(size, fill, pooled) ==
    poolLoop(size,
             spillLoop(size,
                       [pool |-> firstPoolCells(size, fill),
                        spill |-> firstSpillCells(size, fill),
                        stack |-> <<>>,
                        pooled |-> pooled,
                        yielded |-> <<>>],
                       1))

(***************************************************************************)
(* The grid of one generator used directly: rand.setSeed followed by      *)
(* grid.build(), grid.clear(), and the island and pool discoveries run to *)
(* completion.  pooled[p] is TRUE when the pooled flag of the cell p is   *)
(* true and FALSE while it is null, the only other value it takes.         *)
(***************************************************************************)
\* the size of the default configuration, with nine inner cells
PoolSize == [rows |-> 5, columns |-> 5]

\* seeds of one character
GridSeeds == {<<c>> : c \in 97 .. 102}

\* the seeds used on the grids of PoolSize
PoolSeeds == {<<c>> : c \in 97 .. 108}

\* rand.setSeed(value); grid.build().  call keeps the hash after setSeed,
\* the hash after generateCells, the cells generateCells visited and the
\* forced picks of the two edge steps
GridBuild(i, value) ==
    /\ gen[i].builds < MaxBuilds
    /\ \E g \in {initializeGrid(cfg, gen[i])} :
       \E s0 \in {[h |-> setHash(gen[i].hash, value, gen[i].salt),
                   fill |-> gen[i].fill]} :
       \E s1 \in {generateCells(g, s0)} :
       \E s2 \in {buildTopBottom(g, s1)} :
       \E s3 \in {buildLeftRight(g, s2)} :
           /\ gen' = [gen EXCEPT ![i].hash = s3.h,
                                 ![i].seed = value,
                                 ![i].fill = s3.fill,
                                 ![i].builds = @ + 1]
           /\ call' = [op |-> "build", inst |-> i,
                       before |-> gen[i].fill,
                       seeded |-> s0.h,
                       cells |-> iterateFillableCells(g),
                       generated |-> s1,
                       rows |-> IF g.ensureFill.topBottom
                                THEN forcedRows(g, s1, rowsToForce(g, s1.fill), 1)
                                ELSE <<>>,
                       cols |-> IF g.ensureFill.leftRight
                                THEN forcedColumns(g, s2,
                                         columnsToForce(g, s2.fill), 1)
                                ELSE <<>>]
    /\ UNCHANGED <<cfg, rnd>>

\* grid.clear(): every cell unfilled
Clear(i) ==
    /\ gen' = [gen EXCEPT ![i].fill = getInitialGrid(gen[i].size)]
    /\ call' = [op |-> "clear", inst |-> i]
    /\ UNCHANGED <<cfg, rnd>>

\* [...grid.iterateIslandCells()]
IterateIslandCells(i) ==
    /\ \E r \in {iterateIslandCells(gen[i].size, gen[i].fill)} :
           call' = [op |-> "islands", inst |-> i,
                    yielded |-> r.yielded, adds |-> r.adds]
    /\ UNCHANGED <<cfg, gen, rnd>>

\* [...grid.iteratePoolCells()]
IteratePoolCells(i) ==
    /\ \E r \in {iteratePoolCells(gen[i].size, gen[i].fill, gen[i].pooled)} :
           /\ gen' = [gen EXCEPT ![i].pooled = r.pooled]
           /\ call' = [op |-> "pools", inst |-> i, yielded |-> r.yielded,
                       spill |-> r.spill, before |-> gen[i].pooled]
    /\ UNCHANGED <<cfg, rnd>>

\* every grid configuration within the bounds with the salt 0, and grids
\* of PoolSize
GridSpecConfigs ==
    {MakeConfig(0, bias, NoColorWeights, size, sym, tb, lr, PlainColors, <<>>) :
        bias \in Biases, size \in Sizes,
        sym \in BOOLEAN, tb \in BOOLEAN, lr \in BOOLEAN}
    \cup {MakeConfig(0, bias, NoColorWeights, PoolSize, sym, FALSE, FALSE,
                     PlainColors, <<>>) : bias \in {50}, sym \in BOOLEAN}

InitGrid ==
    /\ cfg \in GridSpecConfigs
    /\ gen = [i \in {1} |->
                 NewGenerator(cfg)
                 @@ [pooled |-> [p \in Coords(cfg.grid.size) |-> FALSE]]]
    /\ rnd = <<>>
    /\ call = [op |-> None, inst |-> 0]

NextGrid ==
    \/ \E value \in (IF cfg.grid.size = PoolSize THEN PoolSeeds ELSE GridSeeds) :
           GridBuild(1, value)
    \/ Clear(1)
    \/ IterateIslandCells(1)
    \/ IteratePoolCells(1)

SpecGrid == InitGrid /\ [][NextGrid]_vars

\* C21: in the edge steps of build() a forced pick is made for the top or
\* the bottom row, or for the left or the right column, only if that row or
\* column has no filled cell at the moment its iteration starts.
ForcedOnlyWhenEmpty ==
    call.op = "build" =>
        /\ \A k \in DOMAIN call.rows : ~call.rows[k].filled
        /\ \A k \in DOMAIN call.cols : ~call.cols[k].filled

\* the least k with 2 * k >= n
HalfRoundedUp(n) == CHOOSE k \in 0 .. n : 2 * k >= n /\ \A j \in 0 .. n : 2 * j >= n => k <= j

\* p comes before q in row-major order
RowMajorBefore(p, q) == p[1] < q[1] \/ (p[1] = q[1] /\ p[2] < q[2])

\* the hash h advanced n times
RECURSIVE AdvanceTimes(_, _)
AdvanceTimes(h, n) == IF n = 0 THEN h ELSE AdvanceTimes(updateHash(h), n - 1)

\* the cells p is mirrored to: horizontally, vertically, and both
Mirrors(size, p) ==
    {p, <<p[1], size.columns - 1 - p[2]>>, <<size.rows - 1 - p[1], p[2]>>,
     <<size.rows - 1 - p[1], size.columns - 1 - p[2]>>}

\* C22: the base generation of a build visits the fillable cells, rows
\* 0..ceil(rows/2)-1 (every row without vertical symmetry) by columns
\* 0..ceil(columns/2)-1, in row-major order and makes exactly one wannaFill
\* draw for each: the k-th draw, made at the hash advanced k-1 times, is the
\* one that decides the k-th cell, and the hash after the generation is the
\* hash advanced once per fillable cell; every cell of the grid is a
\* fillable cell or a mirror of one.
\* (The fill probabilities configured are tenths p / 10, for which wannaFill
\* is true exactly when |hash| mod 10 + 1 <= p.)
OneDrawPerFillableCell ==
    call.op = "build" =>
        LET size == gen[1].size
            rowLimit == IF gen[1].verticalSymmetry
                        THEN HalfRoundedUp(size.rows) ELSE size.rows
            colLimit == HalfRoundedUp(size.columns)
            cells == call.cells
        IN  /\ {cells[k] : k \in DOMAIN cells}
                   = (0 .. rowLimit - 1) \X (0 .. colLimit - 1)
            /\ Len(cells) = rowLimit * colLimit
            /\ \A k \in DOMAIN cells, l \in DOMAIN cells :
                   k < l => RowMajorBefore(cells[k], cells[l])
            /\ call.generated.h = AdvanceTimes(call.seeded, Len(cells))
            /\ \A k \in DOMAIN cells :
                   call.generated.fill[cells[k]]
                       = (\/ call.before[cells[k]]
                          \/ (AbsoluteMod(AdvanceTimes(call.seeded, k - 1), 10) + 1
                                  <= cfg.randomizer.bias.cellFillProbability \div 10))
            /\ \A p \in Coords(size) :
                   \E k \in DOMAIN cells : p \in Mirrors(size, cells[k])
            /\ ~gen[1].verticalSymmetry =>
                   \A p \in Coords(size) :
                       \E k \in DOMAIN cells :
                           p \in {cells[k],
                                  <<cells[k][1], size.columns - 1 - cells[k][2]>>}

\* the second build of a grid of 3 x 3 with vertical symmetry: four
\* fillable cells, one of them filled by this generation
OneDrawPerFillableCellWitness ==
    /\ call.op = "build"
    /\ gen[1].builds = 2
    /\ gen[1].size = [rows |-> 3, columns |-> 3]
    /\ gen[1].verticalSymmetry
    /\ Len(call.cells) = 4
    /\ call.generated.fill # call.before
    /\ \E p \in Coords(gen[1].size) : ~call.generated.fill[p]

\* p and q are distinct cells next to each other: side by side, or, when
\* corners count, corner to corner
Adjacent(p, q, corners) ==
    /\ p # q
    /\ Abs(p[1] - q[1]) <= 1 /\ Abs(p[2] - q[2]) <= 1
    /\ corners \/ p[1] = q[1] \/ p[2] = q[2]

\* the cells of `cells` joined to a cell of S by a chain of adjacent cells
\* of `cells`
RECURSIVE Reach(_, _, _)
Reach(S, cells, corners) ==
    IF \E q \in cells \ S : \E p \in S : Adjacent(p, q, corners)
    THEN Reach(S \cup {q \in cells : \E p \in S : Adjacent(p, q, corners)},
               cells, corners)
    ELSE S

\* the first cell of S in row-major order
FirstOf(S) == CHOOSE p \in S : \A q \in S : q = p \/ RowMajorBefore(p, q)

\* the entries of seq are distinct
Distinct(seq) == \A k \in DOMAIN seq, l \in DOMAIN seq : k # l => seq[k] # seq[l]

\* C23: on every fill pattern, iterateIslandCells run to completion yields
\* exactly one cell per 8-connected component of filled cells, the first
\* cell of the component in row-major order, never an empty cell, and adds
\* each filled cell to the visited set at most once (and no empty cell).
IslandDiscovery ==
    call.op = "islands" =>
        /\ \A k \in DOMAIN call.yielded : call.yielded[k] \in Filled(1)
        /\ {call.yielded[k] : k \in DOMAIN call.yielded}
               = {FirstOf(Reach({p}, Filled(1), TRUE)) : p \in Filled(1)}
        /\ Distinct(call.yielded)
        /\ \A k \in DOMAIN call.yielded, l \in DOMAIN call.yielded :
               k < l => RowMajorBefore(call.yielded[k], call.yielded[l])
        /\ Distinct(call.adds)
        /\ {call.adds[k] : k \in DOMAIN call.adds} = Filled(1)

\* two islands were yielded, one of which holds together by a corner only
IslandDiscoveryWitness ==
    /\ call.op = "islands"
    /\ Len(call.yielded) = 2
    /\ \E p \in Filled(1) :
           Reach({p}, Filled(1), FALSE) # Reach({p}, Filled(1), TRUE)
    /\ \E p \in DOMAIN gen[1].fill : ~gen[1].fill[p]

\* the empty cells
Empty(i) == {p \in DOMAIN gen[i].fill : ~gen[i].fill[p]}

\* the cells on the boundary of the grid
Boundary(i) ==
    {p \in DOMAIN gen[i].fill :
        p[1] \in {0, gen[i].size.rows - 1} \/ p[2] \in {0, gen[i].size.columns - 1}}

\* the empty cells off the boundary that no chain of side-by-side empty
\* cells joins to an empty boundary cell
PoolCells(i) ==
    {p \in Empty(i) \ Boundary(i) :
        Reach({p}, Empty(i), FALSE) \cap Boundary(i) = {}}

\* C24: once iteratePoolCells has run to completion, the pooled flag of a
\* cell is true exactly when the cell is empty, off the boundary and not
\* joined to an empty boundary cell by side-by-side empty cells; one cell is
\* yielded per 8-connected component of those cells, and no boundary cell
\* and no filled cell is yielded.
PoolDiscovery ==
    call.op = "pools" =>
        /\ \A p \in DOMAIN gen[1].pooled : gen[1].pooled[p] <=> p \in PoolCells(1)
        /\ \A k \in DOMAIN call.yielded :
               call.yielded[k] \in Empty(1) \ Boundary(1)
        /\ Distinct(call.yielded)
        /\ {Reach({call.yielded[k]}, PoolCells(1), TRUE) : k \in DOMAIN call.yielded}
               = {Reach({p}, PoolCells(1), TRUE) : p \in PoolCells(1)}
        /\ Len(call.yielded)
               = Cardinality({Reach({p}, PoolCells(1), TRUE) : p \in PoolCells(1)})

\* C30: whatever builds, clears and completed pool discoveries were made on
\* the grid, a cell whose pooled flag is true is an empty cell.
PooledCellsAreEmpty ==
    \A p \in DOMAIN gen[1].pooled : gen[1].pooled[p] => ~gen[1].fill[p]

(***************************************************************************)
(* Renderer: the path.  Lengths are in hundredths, as roundings are; a    *)
(* path is the sequence of its commands.  sv holds the options of the     *)
(* renderer that the path depends on: cellRounding, flow, strokeWidth and *)
(* gutter.                                                                 *)
(***************************************************************************)
\* inner.cellSize: 10
cellSize == 10 * Scale

MoveTo(x, y) == [c |-> "M", r |-> 0, sweep |-> 0, x |-> x, y |-> y]

LineTo(x, y) == [c |-> "L", r |-> 0, sweep |-> 0, x |-> x, y |-> y]

\* A r r 0 0 sweep x y
ArcTo(r, sweep, x, y) == [c |-> "A", r |-> r, sweep |-> sweep, x |-> x, y |-> y]

ClosePath == [c |-> "Z", r |-> 0, sweep |-> 0, x |-> 0, y |-> 0]

\* cellRadius.outer = cellSize * cellRounding.outer / 2
rOuter(sv) == (cellSize * sv.cellRounding.outer) \div (2 * Scale)

\* cellRadius.inner = cellSize * cellRounding.inner / 2
rInner(sv) == (cellSize * sv.cellRounding.inner) \div (2 * Scale)

\* getRawCellCoordinates: <<x, y>> of the cell p = <<row, col>>
getRawCellCoordinates(sv, p) ==
    <<p[2] * (cellSize + sv.gutter), p[1] * (cellSize + sv.gutter)>>

canDrawInnerCorner(sv) ==
    /\ sv.cellRounding.inner # 0
    /\ \/ IF sv.strokeWidth # 0
          THEN sv.cellRounding.inner >= sv.cellRounding.outer
          ELSE sv.cellRounding.inner > sv.cellRounding.outer
       \/ sv.flow

\* if (roundingOuter < 1) pathData += L x y
straightTo(sv, x, y) ==
    IF sv.cellRounding.outer < Scale THEN <<LineTo(x, y)>> ELSE <<>>

\* the variant of outerCorner that looks at flow only
outerCornerFlowOnly(sv, touching, cx, cy, tx, ty) ==
    IF sv.cellRounding.outer = 0 THEN <<>>
    ELSE IF sv.flow
    THEN <<LineTo(cx, cy), LineTo(tx, ty)>>
    ELSE <<ArcTo(rOuter(sv), 1, tx, ty)>>

\* if (roundingOuter) { if (flow && touching) two lines through the corner
\* <<cx, cy>> else an arc }, either ending at <<tx, ty>>
outerCorner(sv, touching, cx, cy, tx, ty) ==
    IF sv.cellRounding.outer = 0 THEN <<>>
    ELSE IF sv.flow /\ touching
    THEN <<LineTo(cx, cy), LineTo(tx, ty)>>
    ELSE <<ArcTo(rOuter(sv), 1, tx, ty)>>

\* the contour of the filled cell at <<x, y>>; nb[side] is
\* cell.hasFilledNeighbor(side)
filledCellPath(sv, nb, x, y) ==
    <<MoveTo(x, y + cellSize \div 2)>>
    \o straightTo(sv, x, y + rOuter(sv))
    \o outerCorner(sv, nb["LEFT"] \/ nb["TOP"] \/ nb["TOP_LEFT"],
                   x, y, x + rOuter(sv), y)
    \o straightTo(sv, x + cellSize - rOuter(sv), y)
    \o outerCorner(sv, nb["RIGHT"] \/ nb["TOP"] \/ nb["TOP_RIGHT"],
                   x + cellSize, y, x + cellSize, y + rOuter(sv))
    \o straightTo(sv, x + cellSize, y + cellSize - rOuter(sv))
    \o outerCorner(sv, nb["RIGHT"] \/ nb["BOTTOM"] \/ nb["BOTTOM_RIGHT"],
                   x + cellSize, y + cellSize,
                   x + cellSize - rOuter(sv), y + cellSize)
    \o straightTo(sv, x + rOuter(sv), y + cellSize)
    \o outerCorner(sv, nb["LEFT"] \/ nb["BOTTOM"] \/ nb["BOTTOM_LEFT"],
                   x, y + cellSize, x, y + cellSize - rOuter(sv))
    \o straightTo(sv, x, y + cellSize \div 2)
    \o <<ClosePath>>

\* the filled neighbours of the cell p, by direction
filledNeighbors(size, fill, p) ==
    [side \in CELL_NEIGHBOR_DIRECTIONS |-> hasFilledNeighbor(size, fill, p, side)]

drawFilledCellPath(sv, size, fill, p) ==
    filledCellPath(sv, filledNeighbors(size, fill, p),
                   getRawCellCoordinates(sv, p)[1],
                   getRawCellCoordinates(sv, p)[2])

\* one block of drawInnerCornersPath: from <<mx, my>> the inner arc to
\* <<ax, ay>>, the line to <<lx, ly>>, then through the corner <<cx, cy>> to
\* <<ox, oy>> (flow) or the outer arc to <<ox, oy>>, and back
innerCorner(sv, both, mx, my, ax, ay, lx, ly, cx, cy, ox, oy) ==
    IF ~both THEN <<>>
    ELSE <<MoveTo(mx, my), ArcTo(rInner(sv), 1, ax, ay), LineTo(lx, ly)>>
         \o (IF sv.flow THEN <<LineTo(cx, cy), LineTo(ox, oy)>>
             ELSE IF rOuter(sv) # 0 THEN <<ArcTo(rOuter(sv), 0, ox, oy)>>
             ELSE <<>>)
         \o <<LineTo(mx, my), ClosePath>>

\* the variant of innerCornersPath without the bottom-left corner
innerCornersPathThree(sv, nb, x, y) ==
    innerCorner(sv, nb["TOP"] /\ nb["LEFT"],
                x, y + rInner(sv), x + rInner(sv), y, x + rOuter(sv), y,
                x, y, x, y + rOuter(sv))
    \o innerCorner(sv, nb["TOP"] /\ nb["RIGHT"],
                x + cellSize - rInner(sv), y, x + cellSize, y + rInner(sv),
                x + cellSize, y + rOuter(sv),
                x + cellSize, y, x + cellSize - rOuter(sv), y)
    \o innerCorner(sv, nb["BOTTOM"] /\ nb["RIGHT"],
                x + cellSize, y + cellSize - rInner(sv),
                x + cellSize - rInner(sv), y + cellSize,
                x + cellSize - rOuter(sv), y + cellSize,
                x + cellSize, y + cellSize,
                x + cellSize, y + cellSize - rOuter(sv))

\* the inner corners of the empty cell at <<x, y>>: top-left, top-right,
\* bottom-right, bottom-left
innerCornersPath(sv, nb, x, y) ==
    innerCorner(sv, nb["TOP"] /\ nb["LEFT"],
                x, y + rInner(sv), x + rInner(sv), y, x + rOuter(sv), y,
                x, y, x, y + rOuter(sv))
    \o innerCorner(sv, nb["TOP"] /\ nb["RIGHT"],
                x + cellSize - rInner(sv), y, x + cellSize, y + rInner(sv),
                x + cellSize, y + rOuter(sv),
                x + cellSize, y, x + cellSize - rOuter(sv), y)
    \o innerCorner(sv, nb["BOTTOM"] /\ nb["RIGHT"],
                x + cellSize, y + cellSize - rInner(sv),
                x + cellSize - rInner(sv), y + cellSize,
                x + cellSize - rOuter(sv), y + cellSize,
                x + cellSize, y + cellSize,
                x + cellSize, y + cellSize - rOuter(sv))
    \o innerCorner(sv, nb["BOTTOM"] /\ nb["LEFT"],
                x + rInner(sv), y + cellSize, x, y + cellSize - rInner(sv),
                x, y + cellSize - rOuter(sv),
                x, y + cellSize, x + rOuter(sv), y + cellSize)

drawInnerCornersPath(sv, size, fill, p) ==
    innerCornersPath(sv, filledNeighbors(size, fill, p),
                     getRawCellCoordinates(sv, p)[1],
                     getRawCellCoordinates(sv, p)[2])

\* drawCompletePath(cells), from the k-th cell on
RECURSIVE drawCells(_, _, _, _, _)
drawCells(sv, size, fill, cells, k) ==
    IF k > Len(cells) THEN <<>>
    ELSE (IF fill[cells[k]] THEN drawFilledCellPath(sv, size, fill, cells[k])
          ELSE IF canDrawInnerCorner(sv)
               THEN drawInnerCornersPath(sv, size, fill, cells[k])
               ELSE <<>>)
         \o drawCells(sv, size, fill, cells, k + 1)

\* drawCompletePath(this.grid.iterateCells())
drawCompletePath(sv, size, fill) ==
    drawCells(sv, size, fill, iterateCells(size), 1)

\* svg.buildFrom(grid.iterateCells()): the d attribute of the pattern
DrawCompletePath(i) ==
    /\ call' = [op |-> "path", inst |-> i,
                path |-> drawCompletePath(gen[i].svg, gen[i].size, gen[i].fill)]
    /\ UNCHANGED <<cfg, gen, rnd>>

\* cellRounding.outer and cellRounding.inner: 0, 0.5, 1
PathRoundings == {0, 50, 100}

\* the options of the renderer: roundings, flow, strokeWidth 0 or 2,
\* gutter 0 or 1
PathOptions ==
    {[cellRounding |-> [outer |-> o, inner |-> n], flow |-> f,
      strokeWidth |-> w, gutter |-> u] :
        o \in PathRoundings, n \in PathRoundings, f \in BOOLEAN,
        w \in {0, 2 * Scale}, u \in {0, Scale}}

\* grids of the largest size within the bounds, filled half
PathConfigs ==
    {MakeConfig(0, 50, NoColorWeights, [rows |-> MaxRows, columns |-> MaxColumns],
                sym, FALSE, FALSE, PlainColors, <<>>) : sym \in BOOLEAN}

InitPath ==
    /\ cfg \in PathConfigs
    /\ \E sv \in PathOptions :
           gen = [i \in {1} |-> NewGenerator(cfg) @@ [svg |-> sv]]
    /\ rnd = <<>>
    /\ call = [op |-> None, inst |-> 0]

NextPath ==
    \/ \E value \in GridSeeds : GridBuild(1, value)
    \/ DrawCompletePath(1)

SpecPath == InitPath /\ [][NextPath]_vars

(***************************************************************************)
(* The path, read back: its contours, and the cell and corner each one    *)
(* belongs to.                                                             *)
(***************************************************************************)
\* the cell <<r, c>> exists and is filled
FilledAt(r, c) == <<r, c>> \in DOMAIN gen[1].fill /\ gen[1].fill[<<r, c>>]

\* the four corners of a cell: the row and column steps towards them
Corners == <<[dr |-> -1, dc |-> -1], [dr |-> -1, dc |-> 1],
             [dr |-> 1, dc |-> 1], [dr |-> 1, dc |-> -1]>>

\* one of the two orthogonal neighbours of the corner k of p, or its diagonal
\* neighbour, is filled
Touching(p, k) ==
    \/ FilledAt(p[1] + k.dr, p[2])
    \/ FilledAt(p[1], p[2] + k.dc)
    \/ FilledAt(p[1] + k.dr, p[2] + k.dc)

\* both orthogonal neighbours of the corner k of p are filled
Enclosed(p, k) == FilledAt(p[1] + k.dr, p[2]) /\ FilledAt(p[1], p[2] + k.dc)

\* the left and top edge of the cell p
LeftOf(p) == p[2] * (cellSize + gen[1].svg.gutter)

TopOf(p) == p[1] * (cellSize + gen[1].svg.gutter)

\* the radius of a rounding
RadiusOf(rounding) == (cellSize * rounding) \div (2 * Scale)

\* the corner k of the cell p, as a point
CornerPoint(p, k) ==
    [x |-> LeftOf(p) + (IF k.dc = 1 THEN cellSize ELSE 0),
     y |-> TopOf(p) + (IF k.dr = 1 THEN cellSize ELSE 0)]

\* where the rounding of the corner k of p ends, going clockwise
CornerEnd(p, k) ==
    LET r == RadiusOf(gen[1].svg.cellRounding.outer)
        c == CornerPoint(p, k)
    IN  IF k.dr = -1 /\ k.dc = -1 THEN [x |-> c.x + r, y |-> c.y]
        ELSE IF k.dr = -1 THEN [x |-> c.x, y |-> c.y + r]
        ELSE IF k.dc = 1 THEN [x |-> c.x - r, y |-> c.y]
        ELSE [x |-> c.x, y |-> c.y - r]

\* the positions of the closing commands of a path
Closings(path) ==
    SelectSeq([k \in 1 .. Len(path) |-> k], LAMBDA k : path[k].c = "Z")

\* the j-th contour of a path
ContourAt(path, j) ==
    SubSeq(path, IF j = 1 THEN 1 ELSE Closings(path)[j - 1] + 1, Closings(path)[j])

\* inner corners are drawable
InnerDrawable ==
    LET sv == gen[1].svg
    IN  /\ sv.cellRounding.inner > 0
        /\ \/ sv.flow
           \/ sv.cellRounding.inner > sv.cellRounding.outer
           \/ sv.strokeWidth > 0 /\ sv.cellRounding.inner >= sv.cellRounding.outer

\* the contours the cell p is to have: itself when filled, else its enclosed
\* corners when inner corners are drawable
ContoursOfCell(p) ==
    IF gen[1].fill[p] THEN <<[cell |-> p, corner |-> 0]>>
    ELSE IF InnerDrawable
    THEN SelectSeq([k \in 1 .. 4 |-> [cell |-> p, corner |-> k]],
                   LAMBDA e : Enclosed(p, Corners[e.corner]))
    ELSE <<>>

\* the contours of the cells from the n-th on, in row-major order
RECURSIVE ContoursFrom(_)
ContoursFrom(n) ==
    IF n >= gen[1].size.rows * gen[1].size.columns THEN <<>>
    ELSE ContoursOfCell(<<n \div gen[1].size.columns, n % gen[1].size.columns>>)
         \o ContoursFrom(n + 1)

\* a contour is closed: it starts with a move, ends with the closing command
\* and has neither in between
Closed(contour) ==
    /\ Len(contour) >= 2
    /\ contour[1].c = "M"
    /\ contour[Len(contour)].c = "Z"
    /\ \A k \in 2 .. Len(contour) - 1 : contour[k].c \in {"L", "A"}

\* every point of the contour lies in the part of the cell that e names: the
\* whole cell, or the quarter of it at a corner
Within(contour, e) ==
    LET k    == IF e.corner = 0 THEN [dr |-> 0, dc |-> 0] ELSE Corners[e.corner]
        half == cellSize \div 2
        x0   == LeftOf(e.cell) + (IF k.dc = 1 THEN half ELSE 0)
        x1   == LeftOf(e.cell) + (IF k.dc = -1 THEN half ELSE cellSize)
        y0   == TopOf(e.cell) + (IF k.dr = 1 THEN half ELSE 0)
        y1   == TopOf(e.cell) + (IF k.dr = -1 THEN half ELSE cellSize)
    IN  \A n \in 1 .. Len(contour) - 1 :
            /\ contour[n].x \in x0 .. x1
            /\ contour[n].y \in y0 .. y1

\* the position of the contour of the filled cell p among the contours
ContourIndex(p) ==
    CHOOSE j \in 1 .. Len(ContoursFrom(0)) :
        ContoursFrom(0)[j] = [cell |-> p, corner |-> 0]

\* the contour of the filled cell p
ContourOf(p) == ContourAt(call.path, ContourIndex(p))

\* the contour goes through the corner k of p with two straight segments
Elbow(contour, p, k) ==
    \E n \in 1 .. Len(contour) - 1 :
        /\ contour[n].c = "L" /\ contour[n + 1].c = "L"
        /\ contour[n].x = CornerPoint(p, k).x /\ contour[n].y = CornerPoint(p, k).y
        /\ contour[n + 1].x = CornerEnd(p, k).x /\ contour[n + 1].y = CornerEnd(p, k).y

\* the contour rounds the corner k of p with an arc of the outer radius
Arc(contour, p, k) ==
    \E n \in 1 .. Len(contour) :
        /\ contour[n].c = "A"
        /\ contour[n].r = RadiusOf(gen[1].svg.cellRounding.outer)
        /\ contour[n].x = CornerEnd(p, k).x /\ contour[n].y = CornerEnd(p, k).y

\* the filled cells
FilledCells == {p \in DOMAIN gen[1].fill : gen[1].fill[p]}

\* the path has the contours of the cells, one after the other
ContoursInOrder ==
    /\ Len(Closings(call.path)) = Len(ContoursFrom(0))
    /\ call.path = <<>> \/ call.path[Len(call.path)].c = "Z"

\* C25 as stated: every corner of every filled cell gets an elbow when outer
\* rounding and flow are enabled and the corner touches a filled neighbour,
\* and otherwise an arc of the outer radius
CornerElbowOrArc ==
    call.op = "path" /\ ContoursInOrder =>
        \A p \in FilledCells : \A c \in 1 .. 4 :
            IF /\ gen[1].svg.cellRounding.outer > 0
               /\ gen[1].svg.flow
               /\ Touching(p, Corners[c])
            THEN Elbow(ContourOf(p), p, Corners[c])
            ELSE Arc(ContourOf(p), p, Corners[c])

\* C25: with outer rounding 0 a corner of a filled cell gets neither an elbow
\* nor an arc; with outer rounding above 0 it gets an elbow and no arc when
\* flow is enabled and one of the corner's two orthogonal neighbours or its
\* diagonal neighbour is filled, and an arc of the outer radius and no elbow
\* otherwise
CornerRounding ==
    call.op = "path" =>
        /\ ContoursInOrder
        /\ \A p \in FilledCells : \A c \in 1 .. 4 :
            LET elbow == Elbow(ContourOf(p), p, Corners[c])
                arc   == Arc(ContourOf(p), p, Corners[c])
            IN  IF gen[1].svg.cellRounding.outer = 0
                THEN ~elbow /\ ~arc
                ELSE IF gen[1].svg.flow /\ Touching(p, Corners[c])
                THEN elbow /\ ~arc
                ELSE arc /\ ~elbow

\* a path drawn with outer rounding and flow, in which one filled cell has a
\* corner that touches a filled cell only diagonally and a corner that
\* touches none
CornerRoundingWitness ==
    /\ call.op = "path"
    /\ gen[1].svg.cellRounding.outer > 0
    /\ gen[1].svg.flow
    /\ \E p \in FilledCells : \E c, d \in 1 .. 4 :
           /\ FilledAt(p[1] + Corners[c].dr, p[2] + Corners[c].dc)
           /\ ~FilledAt(p[1] + Corners[c].dr, p[2])
           /\ ~FilledAt(p[1], p[2] + Corners[c].dc)
           /\ ~Touching(p, Corners[d])
           /\ Elbow(ContourOf(p), p, Corners[c])
           /\ Arc(ContourOf(p), p, Corners[d])

\* C26: the path has, cell by cell in row-major order, one closed contour for
\* each filled cell and, for each empty cell, one closed contour at each
\* corner whose two neighbours are both filled when inner corners are
\* drawable and none when they are not
ContoursPerCell ==
    call.op = "path" =>
        /\ ContoursInOrder
        /\ \A j \in 1 .. Len(ContoursFrom(0)) :
               /\ Closed(ContourAt(call.path, j))
               /\ Within(ContourAt(call.path, j), ContoursFrom(0)[j])

\* a path with the contour of a filled cell and two inner corners of one
\* empty cell, and a path of a grid with such an empty cell whose inner
\* corners are not drawable
ContoursPerCellWitness ==
    /\ call.op = "path"
    /\ \E p \in DOMAIN gen[1].fill \ FilledCells :
           /\ \E c, d \in 1 .. 4 :
                  c # d /\ Enclosed(p, Corners[c]) /\ Enclosed(p, Corners[d])
           /\ InnerDrawable
           /\ \E j \in 1 .. Len(ContoursFrom(0)) - 1 :
                  /\ ContoursFrom(0)[j].cell = p
                  /\ ContoursFrom(0)[j + 1].cell = p
    /\ FilledCells # {}

\* a grid with an enclosed corner of an empty cell, drawn while inner corners
\* are not drawable: the path has the filled cells' contours only
NoInnerCornersWitness ==
    /\ call.op = "path"
    /\ ~InnerDrawable
    /\ gen[1].svg.cellRounding.inner > 0
    /\ \E p \in DOMAIN gen[1].fill \ FilledCells : \E c \in 1 .. 4 :
           Enclosed(p, Corners[c])
    /\ Len(Closings(call.path)) = Cardinality(FilledCells)

(***************************************************************************)
(* Weighted selection and builds: termination and failure.                 *)
(***************************************************************************)
\* C27: a weighted selection among one or more items, with one non-negative
\* weight per item, returns an index or item of the array, the weights being
\* all 0 included
WeightedSelectionReturns ==
    (/\ WeightedCall("choice") \/ WeightedCall("getChoiceIndex")
     /\ call.n >= 1)
        => (call.err = None /\ call.v \in 0 .. call.n - 1)

\* C28: a build of a constructed generator whose configured weight vectors
\* all have the length of their colour arrays raises no error and stores a
\* complete document of the grid it built
MatchedBuildSucceeds ==
    (call.op = "buildFrom" /\ Mismatched = {})
        => \A i \in DOMAIN gen :
               i = call.inst =>
                   /\ call.err = None
                   /\ CompleteDocument(gen[i].doc, gen[i].fill)

\* C29: a buildFrom that fails with an error leaves the fill pattern of the
\* grid as it was before the call
FailedBuildKeepsPattern ==
    [][\A i \in DOMAIN gen :
          (/\ call'.op = "buildFrom" /\ call'.inst = i /\ call'.err # None
           /\ gen'[i].builds = gen[i].builds + 1)
              => gen'[i].fill = gen[i].fill]_vars

====
